---- MODULE Spec2Model ----
(***************************************************************************)
(* Model of the mortgage calculator (src/src/lib/mortgage-calculator.ts).  *)
(*                                                                         *)
(* JavaScript numbers are modelled as exact rationals together with the    *)
(* IEEE special values NaN, +Infinity and -Infinity: x/0, 0/0, comparisons *)
(* with NaN and Math.max behave as in JavaScript; binary rounding of the   *)
(* 53-bit mantissa is modelled only where it changes the outcome in kind:  *)
(* a sum loses a term that is below the precision of the other term, so    *)
(* that 1 + r is 1 for a tiny r.  Numerators and denominators are naturals *)
(* of unbounded size (sequences of limbs), because the annuity formula     *)
(* raises (1 + r) to the power of the number of payments.                  *)
(***************************************************************************)
EXTENDS Integers, Sequences, FiniteSets, TLC

(***************************************************************************)
(* Naturals of unbounded size: little-endian sequences of limbs in         *)
(* 0 .. Base-1 without a leading zero limb; << >> is 0.                    *)
(***************************************************************************)
Base == 100 * 100

IMax(a, b) == IF a >= b THEN a ELSE b
IMin(a, b) == IF a <= b THEN a ELSE b

RECURSIVE Trim(_)
Trim(s) ==
    IF s = << >> \/ s[Len(s)] # 0 THEN s ELSE Trim(SubSeq(s, 1, Len(s) - 1))

Limb(a, i) == IF i <= Len(a) THEN a[i] ELSE 0

\* the natural k < Base * Base * 20 as limbs
BigOf(k) == Trim(<< k % Base, (k \div Base) % Base, k \div (Base * Base) >>)

\* the value of a natural of at most two limbs
SmallOf(a) == Limb(a, 1) + Base * Limb(a, 2)

BigOne == << 1 >>

(***************************************************************************)
(* The arithmetic is reached through the one recursive operator JSNumber,  *)
(* defined after the operations it selects from: TLC then accounts for     *)
(* each operation once instead of once for every chain of calls that leads *)
(* to it.  BAdd .. Fin are the names the operations are called by.         *)
(***************************************************************************)
RECURSIVE JSNumber(_, _, _)

BAdd(a, b) == JSNumber("badd", a, b)
BSub(a, b) == JSNumber("bsub", a, b)
BCmp(a, b) == JSNumber("bcmp", a, b)
BMul(a, b) == JSNumber("bmul", a, b)
BPow(a, e) == JSNumber("bpow", a, e)
BDivMod(a, b) == JSNumber("divmod", a, b)
BGcd(a, b) == JSNumber("gcd", a, b)
Fin(sgn, num, den) == JSNumber("fin", sgn, << num, den >>)

\* carries (or borrows) through the columns c[lo..hi], low to high
RECURSIVE CarryRange(_, _, _, _)
CarryRange(c, lo, hi, cin) ==
    IF lo = hi
    THEN LET v == c[lo] + cin
         IN  [out |-> << v % Base >>, carry |-> v \div Base]
    ELSE LET mid == (lo + hi) \div 2
             L == CarryRange(c, lo, mid, cin)
             R == CarryRange(c, mid + 1, hi, L.carry)
         IN  IF L.carry = L.carry \* the low half is evaluated first
             THEN [out |-> L.out \o R.out, carry |-> R.carry]
             ELSE [out |-> << >>, carry |-> 0]

Normalize(c) ==
    IF c = << >> THEN << >>
    ELSE LET r == CarryRange(c, 1, Len(c), 0)
         IN  Trim(r.out \o << r.carry % Base, r.carry \div Base >>)

BigSum(a, b) ==
    IF a = << >> THEN b
    ELSE IF b = << >> THEN a
    ELSE Normalize([i \in 1..IMax(Len(a), Len(b)) |-> Limb(a, i) + Limb(b, i)])

\* a - b for a >= b
BigDifference(a, b) ==
    IF b = << >> THEN a
    ELSE Normalize([i \in 1..Len(a) |-> a[i] - Limb(b, i)])

\* the index of the highest limb where a and b (of equal length) differ, 0 if none
RECURSIVE TopDiff(_, _, _)
TopDiff(a, b, i) ==
    IF i = 0 THEN 0 ELSE IF a[i] # b[i] THEN i ELSE TopDiff(a, b, i - 1)

\* -1, 0, 1 as a < b, a = b, a > b
BigOrder(a, b) ==
    IF a = b THEN 0
    ELSE IF Len(a) # Len(b) THEN (IF Len(a) < Len(b) THEN -1 ELSE 1)
    ELSE LET i == TopDiff(a, b, Len(a))
         IN  IF a[i] < b[i] THEN -1 ELSE 1

\* what the limbs a[lo..hi] contribute to column k of a * b
RECURSIVE ColSum(_, _, _, _, _)
ColSum(a, b, k, lo, hi) ==
    IF lo > hi THEN 0
    ELSE IF lo = hi
    THEN (IF k - lo + 1 <= Len(b) THEN (a[lo] * b[k - lo + 1]) % Base ELSE 0)
         + (IF k - lo >= 1 THEN (a[lo] * b[k - lo]) \div Base ELSE 0)
    ELSE LET mid == (lo + hi) \div 2
         IN  ColSum(a, b, k, lo, mid) + ColSum(a, b, k, mid + 1, hi)

BigProduct(a, b) ==
    IF a = << >> \/ b = << >> THEN << >>
    ELSE IF a = BigOne THEN b
    ELSE IF b = BigOne THEN a
    ELSE Normalize([k \in 1..(Len(a) + Len(b)) |->
                      ColSum(a, b, k, IMax(1, k - Len(b)), IMin(Len(a), k))])

\* a to the power e, by squaring
BigPower(a, e) ==
    IF e = 0 THEN BigOne
    ELSE LET h == BPow(a, e \div 2)
             sq == BMul(h, h)
         IN  IF e % 2 = 1 THEN BMul(sq, a) ELSE sq

\* the largest q in lo..hi with b * q <= r
RECURSIVE QDigit(_, _, _, _)
QDigit(r, b, lo, hi) ==
    IF lo = hi THEN lo
    ELSE LET mid == (lo + hi + 1) \div 2
             bm == BMul(b, BigOf(mid))
         IN  IF BCmp(bm, r) <= 0
             THEN QDigit(r, b, mid, hi)
             ELSE QDigit(r, b, lo, mid - 1)

\* one step of long division: cur < b * Base divided by b # 0.  The top limbs
\* of cur and b bracket the quotient digit; QDigit finds it in the bracket.
DivStep(cur, b) ==
    IF BCmp(cur, b) < 0 THEN [q |-> << 0 >>, r |-> cur]
    ELSE LET t == Len(b)
             c2 == Limb(cur, t + 1) * Base + cur[t]
             q == IF t = 1
                  THEN c2 \div b[1]
                  ELSE QDigit(cur, b, IMax(1, c2 \div (b[t] + 1)),
                              IMin(Base - 1, c2 \div b[t]))
             bq == BMul(b, BigOf(q))
         IN  [q |-> << q >>, r |-> BSub(cur, bq)]

\* long division of the limbs a[lo..hi] by b # 0, high to low, rem carried in
RECURSIVE DivRange(_, _, _, _, _)
DivRange(a, b, lo, hi, rem) ==
    IF lo = hi
    THEN LET cur == Trim(<< a[lo] >> \o rem) IN DivStep(cur, b)
    ELSE LET mid == (lo + hi) \div 2
             H == DivRange(a, b, mid + 1, hi, rem)
             L == DivRange(a, b, lo, mid, H.r)
         IN  IF H.r = H.r \* the high half is evaluated first
             THEN [q |-> L.q \o H.q, r |-> L.r]
             ELSE [q |-> << >>, r |-> << >>]

RECURSIVE IGcd(_, _)
IGcd(a, b) == IF b = 0 THEN a ELSE IGcd(b, a % b)

IsSmall(a) == Len(a) <= 2

(***************************************************************************)
(* JavaScript numbers.  A finite number is a sign s, a numerator n and a   *)
(* denominator d > 0 (not necessarily in lowest terms, so numbers are      *)
(* compared with NumEq, never with =); zero is always Zero.  -0 is not     *)
(* distinguished from 0.  Undefined is the value of an absent optional     *)
(* field.                                                                  *)
(***************************************************************************)
NaN == [k |-> "nan"]
Infinity(sgn) == [k |-> "inf", s |-> sgn]
Undefined == [k |-> "undef"]
Zero == [k |-> "fin", s |-> 0, n |-> << >>, d |-> BigOne]

\* the finite number sgn * num / den; a fraction of small parts is reduced
Fraction(sgn, num, den) ==
    IF num = << >> THEN Zero
    ELSE IF IsSmall(num) /\ IsSmall(den) /\ den # BigOne
    THEN LET g == IGcd(SmallOf(num), SmallOf(den))
         IN  [k |-> "fin", s |-> sgn, n |-> BigOf(SmallOf(num) \div g),
              d |-> BigOf(SmallOf(den) \div g)]
    ELSE [k |-> "fin", s |-> sgn, n |-> num, d |-> den]

IAbs(a) == IF a < 0 THEN -a ELSE a
ISign(a) == IF a < 0 THEN -1 ELSE IF a = 0 THEN 0 ELSE 1

\* the number a / b, for integers a and b > 0
Rat(a, b) == Fin(ISign(a), BigOf(IAbs(a)), BigOf(b))
Num(a) == Rat(a, 1)

IsNaN(x) == x.k = "nan"
IsFinite(x) == x.k = "fin"
IsNumber(x) == x.k \in {"fin", "nan", "inf"}

\* the truthiness of an optional number: undefined, 0 and NaN are falsy
Truthy(x) == IsNumber(x) /\ x.k # "nan" /\ ~(x.k = "fin" /\ x.s = 0)

\* the natural number a finite x with denominator 1 stands for
ToNat(x) == SmallOf(x.n)

NumNeg(x) ==
    IF x.k = "nan" THEN NaN
    ELSE IF x.k = "inf" THEN Infinity(-x.s)
    ELSE Fin(-x.s, x.n, x.d)

\* sign and magnitude of s1*n1 + s2*n2
SignedSum(s1, n1, s2, n2) ==
    IF s1 = 0 THEN [s |-> s2, n |-> n2]
    ELSE IF s2 = 0 THEN [s |-> s1, n |-> n1]
    ELSE IF s1 = s2 THEN [s |-> s1, n |-> BAdd(n1, n2)]
    ELSE LET c == BCmp(n1, n2)
         IN  IF c = 0 THEN [s |-> 0, n |-> << >>]
             ELSE IF c > 0 THEN [s |-> s1, n |-> BSub(n1, n2)]
             ELSE [s |-> s2, n |-> BSub(n2, n1)]

\* quotient and remainder of a by b # 0
LongDivision(a, b) ==
    IF BCmp(a, b) < 0 THEN [q |-> << >>, r |-> a]
    ELSE LET d == DivRange(a, b, 1, Len(a), << >>)
         IN  [q |-> Trim(d.q), r |-> d.r]

\* the greatest common divisor of a and b
Euclid(a, b) ==
    IF b = << >> THEN a
    ELSE IF b = BigOne \/ a = BigOne THEN BigOne
    ELSE IF IsSmall(a) /\ IsSmall(b) THEN BigOf(IGcd(SmallOf(a), SmallOf(b)))
    ELSE BGcd(b, BDivMod(a, b).r)

\* a common divisor of a and b, both # 0: the greatest one when a or b is
\* small or one divides the other, else 1
CommonDivisor(a, b) ==
    IF a = b THEN a
    ELSE IF IsSmall(a) \/ IsSmall(b) THEN BGcd(a, b)
    ELSE IF BCmp(a, b) >= 0
    THEN (IF BDivMod(a, b).r = << >> THEN b ELSE BigOne)
    ELSE (IF BDivMod(b, a).r = << >> THEN a ELSE BigOne)

\* a / g for a divisor g of a
BQuot(a, g) == IF g = BigOne THEN a ELSE IF g = a THEN BigOne ELSE BDivMod(a, g).q

\* x + y for finite x and y, over a common denominator
FinAdd(x, y) ==
    IF x.d = y.d
    THEN LET r == SignedSum(x.s, x.n, y.s, y.n) IN Fin(r.s, r.n, x.d)
    ELSE LET g == CommonDivisor(x.d, y.d)
             xm == BQuot(y.d, g)
             ym == BQuot(x.d, g)
             r == SignedSum(x.s, BMul(x.n, xm), y.s, BMul(y.n, ym))
         IN  Fin(r.s, r.n, BMul(x.d, xm))

\* x / y for finite x and y # 0, a common divisor of the denominators cancelled
FinDiv(x, y) ==
    LET g == CommonDivisor(x.d, y.d)
    IN  Fin(x.s * y.s, BMul(x.n, BQuot(y.d, g)), BMul(BQuot(x.d, g), y.n))

\* 2^54
TwoTo54 == << 1984, 948, 3985, 8014, 1 >>

\* a double holds 53 significant bits, so a term y # 0 of at most 2^-54 of
\* the other term x is lost when the sum is rounded: |y| * 2^54 <= |x|
Negligible(y, x) ==
    /\ x.s # 0
    /\ y.s # 0
    /\ Len(x.n) + Len(y.d) > Len(y.n) + Len(x.d) + 2
    /\ BCmp(BMul(BMul(y.n, TwoTo54), x.d), BMul(x.n, y.d)) <= 0

\* x + y: the exact sum, unless one term is lost in the rounding
Sum(x, y) ==
    IF x.k = "nan" \/ y.k = "nan" THEN NaN
    ELSE IF x.k = "inf"
    THEN (IF y.k = "inf" /\ y.s # x.s THEN NaN ELSE x)
    ELSE IF y.k = "inf" THEN y
    ELSE IF Negligible(y, x) THEN x
    ELSE IF Negligible(x, y) THEN y
    ELSE FinAdd(x, y)

\* x * y
Product(x, y) ==
    IF x.k = "nan" \/ y.k = "nan" THEN NaN
    ELSE IF x.k = "inf" \/ y.k = "inf"
    THEN (IF x.s * y.s = 0 THEN NaN ELSE Infinity(x.s * y.s))
    ELSE Fin(x.s * y.s, BMul(x.n, y.n), BMul(x.d, y.d))

\* x / y
Quotient(x, y) ==
    IF x.k = "nan" \/ y.k = "nan" THEN NaN
    ELSE IF x.k = "inf"
    THEN (IF y.k = "inf" THEN NaN
          ELSE Infinity(IF y.s = 0 THEN x.s ELSE x.s * y.s))
    ELSE IF y.k = "inf" THEN Zero
    ELSE IF y.s = 0 THEN (IF x.s = 0 THEN NaN ELSE Infinity(x.s))
    ELSE FinDiv(x, y)

\* -1, 0, 1 as x < y, x = y, x > y, for x and y other than NaN
Compare(x, y) ==
    IF x.k = "inf"
    THEN (IF y.k = "inf" /\ y.s = x.s THEN 0 ELSE x.s)
    ELSE IF y.k = "inf" THEN -y.s
    ELSE IF x.s # y.s THEN (IF x.s < y.s THEN -1 ELSE 1)
    ELSE IF x.s = 0 THEN 0
    ELSE x.s * BCmp(BMul(x.n, y.d), BMul(y.n, x.d))

\* x to the power e, for an exponent e that is a natural number
Power(x, e) ==
    IF ToNat(e) = 0 THEN Num(1)
    ELSE IF x.k = "nan" THEN NaN
    ELSE IF x.k = "inf"
    THEN Infinity(IF x.s < 0 /\ ToNat(e) % 2 = 1 THEN -1 ELSE 1)
    ELSE Fin(IF x.s < 0 /\ ToNat(e) % 2 = 0 THEN 1 ELSE x.s,
             BPow(x.n, ToNat(e)), BPow(x.d, ToNat(e)))

JSNumber(op, x, y) ==
    CASE op = "badd" -> BigSum(x, y)
      [] op = "bsub" -> BigDifference(x, y)
      [] op = "bcmp" -> BigOrder(x, y)
      [] op = "bmul" -> BigProduct(x, y)
      [] op = "bpow" -> BigPower(x, y)
      [] op = "divmod" -> LongDivision(x, y)
      [] op = "gcd" -> Euclid(x, y)
      [] op = "fin" -> Fraction(x, y[1], y[2])
      [] op = "+" -> Sum(x, y)
      [] op = "*" -> Product(x, y)
      [] op = "/" -> Quotient(x, y)
      [] op = "cmp" -> Compare(x, y)
      [] op = "pow" -> Power(x, y)

\* x + y, x - y, x * y, x / y
NumAdd(x, y) == JSNumber("+", x, y)
NumSub(x, y) == JSNumber("+", x, NumNeg(y))
NumMul(x, y) == JSNumber("*", x, y)
NumDiv(x, y) == JSNumber("/", x, y)

NumCmp(x, y) == JSNumber("cmp", x, y)

Comparable(x, y) == IsNumber(x) /\ IsNumber(y) /\ x.k # "nan" /\ y.k # "nan"

\* x === y, x < y, x <= y, x > y, x >= y: false when either side is NaN
NumEq(x, y) == Comparable(x, y) /\ NumCmp(x, y) = 0
NumLt(x, y) == Comparable(x, y) /\ NumCmp(x, y) < 0
NumLe(x, y) == Comparable(x, y) /\ NumCmp(x, y) <= 0
NumGt(x, y) == Comparable(x, y) /\ NumCmp(x, y) > 0
NumGe(x, y) == Comparable(x, y) /\ NumCmp(x, y) >= 0

\* Math.max(x, y)
MathMax(x, y) ==
    IF x.k = "nan" \/ y.k = "nan" THEN NaN
    ELSE IF NumCmp(x, y) >= 0 THEN x ELSE y

\* Math.pow(x, e) for an exponent e that is a natural number
MathPow(x, e) == JSNumber("pow", x, e)

(***************************************************************************)
(* MortgageCalculator: the pure functions.                                 *)
(***************************************************************************)

\* annualRate / 100 / 12
MonthlyRate(annualRate) == NumDiv(NumDiv(annualRate, Num(100)), Num(12))

\* (principal * (monthlyRate * Math.pow(1 + monthlyRate, numPayments)))
\*     / (Math.pow(1 + monthlyRate, numPayments) - 1)
Annuity(principal, monthlyRate, numPayments) ==
    NumDiv(NumMul(principal,
                  NumMul(monthlyRate,
                         MathPow(NumAdd(Num(1), monthlyRate), numPayments))),
           NumSub(MathPow(NumAdd(Num(1), monthlyRate), numPayments), Num(1)))

\* the body of calculateMonthlyPayment after its two constants
MonthlyPayment(principal, monthlyRate, numPayments) ==
    IF NumEq(monthlyRate, Zero)
    THEN NumDiv(principal, numPayments)
    ELSE Annuity(principal, monthlyRate, numPayments)

\* calculateMonthlyPayment taking the years for the number of payments
calculateMonthlyPayment_YearsForMonths(principal, annualRate, termYears) ==
    MonthlyPayment(principal, MonthlyRate(annualRate), termYears)

calculateMonthlyPayment(principal, annualRate, termYears) ==
    MonthlyPayment(principal, MonthlyRate(annualRate), NumMul(termYears, Num(12)))

\* monthlyPayment * termYears * 12 - principal
calculateTotalInterest(principal, monthlyPayment, termYears) ==
    NumSub(NumMul(NumMul(monthlyPayment, termYears), Num(12)), principal)

\* (loanAmount * pmiRate) / 100 / 12
PMIPremium(loanAmount, pmiRate) ==
    NumDiv(NumDiv(NumMul(loanAmount, pmiRate), Num(100)), Num(12))

\* calculatePMI with the threshold test > 20 instead of >= 20
calculatePMI_StrictThreshold(loanAmount, pmiRate, downPaymentPercent) ==
    IF NumGt(downPaymentPercent, Num(20))
    THEN Zero
    ELSE PMIPremium(loanAmount, pmiRate)

\* calculatePMI returning the annual premium
calculatePMI_Annual(loanAmount, pmiRate, downPaymentPercent) ==
    IF NumGe(downPaymentPercent, Num(20))
    THEN Zero
    ELSE NumDiv(NumMul(loanAmount, pmiRate), Num(100))

calculatePMI(loanAmount, pmiRate, downPaymentPercent) ==
    IF NumGe(downPaymentPercent, Num(20))
    THEN Zero
    ELSE PMIPremium(loanAmount, pmiRate)

\* (downPayment / purchasePrice) * 100
DownPaymentPercent(downPayment, purchasePrice) ==
    NumMul(NumDiv(downPayment, purchasePrice), Num(100))

\* inputs.pmiRate ? calculatePMI(loanAmount, pmiRate, downPaymentPercent) : 0
PmiMonthly(inputs, downPaymentPercent) ==
    IF Truthy(inputs.pmiRate)
    THEN calculatePMI(inputs.loanAmount, inputs.pmiRate, downPaymentPercent)
    ELSE Zero

\* the object calculateMortgage returns, from its constants
MortgageCalculation(inputs, purchasePrice, principalAndInterest, propertyTaxMonthly, homeInsuranceMonthly, pmiMonthly, hoaFeesMonthly, totalMonthlyPayment) ==
    [loanAmount |-> inputs.loanAmount,
     downPayment |-> inputs.downPayment,
     purchasePrice |-> purchasePrice,
     principalAndInterest |-> principalAndInterest,
     propertyTaxMonthly |-> propertyTaxMonthly,
     homeInsuranceMonthly |-> homeInsuranceMonthly,
     pmiMonthly |-> pmiMonthly,
     hoaFeesMonthly |-> hoaFeesMonthly,
     totalMonthlyPayment |-> totalMonthlyPayment,
     totalInterest |-> calculateTotalInterest(inputs.loanAmount,
                           principalAndInterest, inputs.loanTermYears),
     totalPayments |-> NumMul(NumMul(totalMonthlyPayment, inputs.loanTermYears),
                              Num(12)),
     totalPMI |-> NumMul(NumMul(pmiMonthly, inputs.loanTermYears), Num(12)),
     interestRate |-> inputs.interestRate,
     loanTermYears |-> inputs.loanTermYears,
     monthlyRate |-> MonthlyRate(inputs.interestRate)]

\* calculateMortgage from the monthly costs: the total monthly payment
MonthlyCosts(inputs, purchasePrice, principalAndInterest, propertyTaxMonthly, homeInsuranceMonthly, pmiMonthly, hoaFeesMonthly) ==
    MortgageCalculation(inputs, purchasePrice, principalAndInterest,
        propertyTaxMonthly, homeInsuranceMonthly, pmiMonthly, hoaFeesMonthly,
        NumAdd(NumAdd(NumAdd(NumAdd(principalAndInterest, propertyTaxMonthly),
                             homeInsuranceMonthly),
                      pmiMonthly),
               hoaFeesMonthly))

\* calculateMortgage from the purchase price and the payment: the monthly costs
PaymentBreakdown(inputs, purchasePrice, principalAndInterest) ==
    MonthlyCosts(inputs, purchasePrice, principalAndInterest,
        NumDiv(inputs.propertyTaxAnnual, Num(12)),
        NumDiv(inputs.homeInsuranceAnnual, Num(12)),
        PmiMonthly(inputs, DownPaymentPercent(inputs.downPayment, purchasePrice)),
        IF Truthy(inputs.hoaFees) THEN inputs.hoaFees ELSE Zero)

\* calculateMortgage from the purchase price
PricedMortgage(inputs, purchasePrice) ==
    PaymentBreakdown(inputs, purchasePrice,
        calculateMonthlyPayment(inputs.loanAmount, inputs.interestRate,
                                inputs.loanTermYears))

calculateMortgage(inputs) ==
    PricedMortgage(inputs, NumAdd(inputs.loanAmount, inputs.downPayment))

(***************************************************************************)
(* MortgageUtils.validateInputs: the list of error strings, in order.      *)
(***************************************************************************)
ErrorIf(cond, msg) == IF cond THEN << msg >> ELSE << >>

validateInputs(inputs) ==
    LET purchasePrice == NumAdd(inputs.loanAmount, inputs.downPayment)
    IN  ErrorIf(NumLt(inputs.interestRate, Zero) \/ NumGt(inputs.interestRate, Num(50)),
                "Interest rate must be between 0% and 50%")
        \o ErrorIf(NumLe(inputs.loanTermYears, Zero)
                       \/ NumGt(inputs.loanTermYears, Num(50)),
                   "Loan term must be between 1 and 50 years")
        \o ErrorIf(NumLt(inputs.downPayment, Zero),
                   "Down payment cannot be negative")
        \o ErrorIf(NumGt(inputs.downPayment, purchasePrice),
                   "Down payment cannot be greater than purchase price")
        \o ErrorIf(NumLt(inputs.propertyTaxAnnual, Zero),
                   "Property tax cannot be negative")
        \o ErrorIf(NumLt(inputs.homeInsuranceAnnual, Zero),
                   "Home insurance cannot be negative")
        \o ErrorIf(Truthy(inputs.pmiRate)
                       /\ (NumLt(inputs.pmiRate, Zero) \/ NumGt(inputs.pmiRate, Num(10))),
                   "PMI rate must be between 0% and 10%")
        \o ErrorIf(Truthy(inputs.hoaFees) /\ NumLt(inputs.hoaFees, Zero),
                   "HOA fees cannot be negative")
        \o ErrorIf(Truthy(inputs.closingCosts) /\ NumLt(inputs.closingCosts, Zero),
                   "Closing costs cannot be negative")

(***************************************************************************)
(* Dates.  A Date is a calendar day [year, month, day] with month 0 .. 11  *)
(* as in JavaScript; the time of day is not modelled and local time is     *)
(* taken to be UTC, so toISOString shows the same calendar day.            *)
(***************************************************************************)
IsLeapYear(year) == year % 4 = 0 /\ (year % 100 # 0 \/ year % 400 = 0)

DaysInMonth(year, month) ==
    IF month = 1 THEN (IF IsLeapYear(year) THEN 29 ELSE 28)
    ELSE IF month \in {3, 5, 8, 10} THEN 30
    ELSE 31

\* the date of day number day (possibly past the month's end) of a month
RECURSIVE MakeDay(_, _, _)
MakeDay(year, month, day) ==
    IF day <= DaysInMonth(year, month)
    THEN [year |-> year, month |-> month, day |-> day]
    ELSE MakeDay(IF month = 11 THEN year + 1 ELSE year,
                 (month + 1) % 12,
                 day - DaysInMonth(year, month))

\* date.setMonth(month) for month >= 0: months past 11 run into the next
\* years, a day past the end of the month runs into the next month
SetMonth(date, month) ==
    MakeDay(date.year + (month \div 12), month % 12, date.day)

\* date.toISOString().split("T")[0]: year, month 1 .. 12 and day
ISODate(date) == << date.year, date.month + 1, date.day >>

(***************************************************************************)
(* MortgageCalculator.generateAmortizationTable: the loop body.            *)
(***************************************************************************)

\* AmortizationEntry without Math.max: the ending balance may go negative
AmortizationEntry_NoClamp(i, startDate, balance, monthlyPayment, monthlyRate, cumulativeInterest, cumulativePrincipal) ==
    LET interestPayment == NumMul(balance, monthlyRate)
        principalPayment == NumSub(monthlyPayment, interestPayment)
    IN  [paymentNumber |-> i,
         paymentDate |-> ISODate(SetMonth(startDate, startDate.month + i)),
         beginningBalance |-> balance,
         monthlyPayment |-> monthlyPayment,
         principalPayment |-> principalPayment,
         interestPayment |-> interestPayment,
         endingBalance |-> NumSub(balance, principalPayment),
         cumulativeInterest |-> NumAdd(cumulativeInterest, interestPayment),
         cumulativePrincipal |-> NumAdd(cumulativePrincipal, principalPayment)]

\* the entry pushed by iteration i, from the balance and the cumulative
\* sums before it
AmortizationEntry(i, startDate, balance, monthlyPayment, monthlyRate, cumulativeInterest, cumulativePrincipal) ==
    LET interestPayment == NumMul(balance, monthlyRate)
        principalPayment == NumSub(monthlyPayment, interestPayment)
    IN  [paymentNumber |-> i,
         paymentDate |-> ISODate(SetMonth(startDate, startDate.month + i)),
         beginningBalance |-> balance,
         monthlyPayment |-> monthlyPayment,
         principalPayment |-> principalPayment,
         interestPayment |-> interestPayment,
         endingBalance |-> MathMax(Zero, NumSub(balance, principalPayment)),
         cumulativeInterest |-> NumAdd(cumulativeInterest, interestPayment),
         cumulativePrincipal |-> NumAdd(cumulativePrincipal, principalPayment)]

\* PaidOff with a threshold of 1
PaidOff_Dollar(balance) == NumLe(balance, Num(1))

\* balance <= 0.01
PaidOff(balance) == NumLe(balance, Rat(1, 100))

(***************************************************************************)
(* State: the arguments of a call of the calculation core, what the call   *)
(* returned, and the local variables of generateAmortizationTable while it *)
(* runs.                                                                   *)
(***************************************************************************)
VARIABLES
    inputs,               \* the MortgageInputs passed in
    startDate,            \* the start date passed to generateAmortizationTable
    call,                 \* the function that was called, "none" before the call
    errors,               \* what validateInputs returned
    payment,              \* what calculateMonthlyPayment returned
    calculation,          \* what calculateMortgage returned
    pc,                   \* generateAmortizationTable: "idle", "loop", "done"
    i,                    \* its loop counter
    balance,              \* its local variables
    cumulativeInterest,
    cumulativePrincipal,
    amortizationTable,    \* the table it builds and returns
    targetDate,           \* the target date passed to a lookup by date
    found                 \* what the lookup returned

callVars == << inputs, startDate, call, errors, payment, calculation >>
tableVars == << pc, i, balance, cumulativeInterest, cumulativePrincipal,
                amortizationTable >>
lookupVars == << targetDate, found >>
calculatorVars == << callVars, tableVars, lookupVars >>

\* LocalStorageService and the clock it reads
VARIABLES
    storage,              \* the array held under "mortgage-calculator-scenarios"
    now,                  \* Date.now(), in milliseconds
    op,                   \* the last call of the service and its arguments
    returned,             \* what it returned
    snapshots             \* the results the page holds and passes to the service

storeVars == << storage, now, op, returned, snapshots >>

\* a caller of the calculation core
VARIABLES
    log                   \* its completed calls: function, arguments, result

callerVars == << log >>

\* the calculator component MortgageCalculatorComponent
VARIABLES
    uiInputs,             \* its state inputs
    uiCalculation,        \* its state calculation, which it displays
    uiAmortizationTable,  \* its state amortizationTable
    calculationError,     \* its state calculationError
    rendered,             \* the inputs of its last render
    validationErrors,     \* the memo of that render
    calculationResult,    \* the memo of that render
    renderPending,        \* a state update waits for its render
    effectPending,        \* the update effect of the last render waits
    calculated,           \* the inputs it has called the calculator with
    completed             \* the inputs it has called onCalculationComplete for

\* the page MortgageCalculatorPage around the component
VARIABLES
    currentCalculation    \* its state currentCalculation

pageVars == << currentCalculation >>

\* the purchase-price and down-payment fields of the component's form
VARIABLES
    enteredPrice,         \* the purchase price the user entered last
    edits                 \* the number of edits of these fields so far

formVars == << enteredPrice, edits >>

uiVars == << uiInputs, uiCalculation, uiAmortizationTable, calculationError, rendered, validationErrors, calculationResult, renderPending, effectPending, calculated, completed, pageVars, formVars >>

\* the theme provider ThemeProvider and what it reads and writes
VARIABLES
    theme,                \* its state theme, a queued update included
    renderedTheme,        \* theme as of its last render
    dataTheme,            \* the attribute data-theme of the document element
    localStorageTheme,    \* the item "theme" of localStorage
    storageReadable,      \* localStorage.getItem does not throw
    prefersDark,          \* matchMedia("(prefers-color-scheme: dark)").matches
    hasUserSetTheme,      \* the ref hasUserSetTheme
    mediaQueryRef,        \* the ref mediaQueryRef is set
    listening,            \* handleChange is registered with the media query
    themePc,              \* "mount" until the mount effects have run
    themeEffectPending,   \* the effect on [theme] of the last render waits
    pristine,             \* no setTheme call and no system change yet
    preferenceSet,        \* setTheme has been called with one of the themes
    themeOp               \* the last step of the provider

themeVars == << theme, renderedTheme, dataTheme, localStorageTheme, storageReadable, prefersDark, hasUserSetTheme, mediaQueryRef, listening, themePc, themeEffectPending, pristine, preferenceSet, themeOp >>

\* GoogleSheetsExportService.populateAmortizationSheet and the sheet it fills
VARIABLES
    exportTable,          \* its argument amortizationTable
    headerRow,            \* the row of its header: 30 in a sheet shared with
                          \* the summary, 1 in a sheet of its own
    writes,               \* the writeRange calls of this export that succeeded
    exportPc,             \* the statement the export has reached
    exports               \* the number of exports started so far

exportVars == << exportTable, headerRow, writes, exportPc, exports >>

\* the state outside the calculation core, which no call of it touches
outsideCalculator == << storeVars, callerVars, uiVars, themeVars, exportVars >>

\* the state outside the scenario store
outsideStore == << calculatorVars, callerVars, uiVars, themeVars, exportVars >>

\* the state outside the calculator component
outsideUI == << calculatorVars, storeVars, callerVars, themeVars, exportVars >>

\* the state outside the theme provider
outsideTheme == << calculatorVars, storeVars, callerVars, uiVars, exportVars >>

\* the state outside the spreadsheet export
outsideExport == << calculatorVars, storeVars, callerVars, uiVars, themeVars >>

vars == << calculatorVars, storeVars, callerVars, uiVars, themeVars, exportVars >>

NotCalled == [k |-> "none"]

\* nothing has been saved and the service has not been called
StoreIdle ==
    /\ storage = << >>
    /\ now = 0
    /\ op = [fn |-> "none"]
    /\ returned = NotCalled

CallerIdle == log = << >>

\* the component is not mounted
UIIdle ==
    /\ uiInputs = NotCalled
    /\ uiCalculation = NotCalled
    /\ uiAmortizationTable = NotCalled
    /\ calculationError = NotCalled
    /\ rendered = NotCalled
    /\ validationErrors = NotCalled
    /\ calculationResult = NotCalled
    /\ renderPending = FALSE
    /\ effectPending = FALSE
    /\ calculated = {}
    /\ completed = {}
    /\ currentCalculation = NotCalled
    /\ enteredPrice = NotCalled
    /\ edits = 0

\* the provider is not mounted
ThemeIdle ==
    /\ theme = NotCalled
    /\ renderedTheme = NotCalled
    /\ dataTheme = NotCalled
    /\ localStorageTheme = NotCalled
    /\ storageReadable = TRUE
    /\ prefersDark = FALSE
    /\ hasUserSetTheme = FALSE
    /\ mediaQueryRef = FALSE
    /\ listening = FALSE
    /\ themePc = "unmounted"
    /\ themeEffectPending = FALSE
    /\ pristine = TRUE
    /\ preferenceSet = FALSE
    /\ themeOp = [fn |-> "none"]

\* no export has been started
ExportIdle ==
    /\ exportTable = << >>
    /\ headerRow = 0
    /\ writes = << >>
    /\ exportPc = "idle"
    /\ exports = 0

OutsideCalculatorIdle == StoreIdle /\ snapshots = {} /\ CallerIdle /\ UIIdle /\ ThemeIdle /\ ExportIdle

MaxTermYears == 2

MortgageInputs(loanAmount, interestRate, loanTermYears, propertyTaxAnnual, homeInsuranceAnnual, pmiRate, hoaFees, downPayment, closingCosts) ==
    [loanAmount |-> loanAmount, interestRate |-> interestRate,
     loanTermYears |-> loanTermYears, propertyTaxAnnual |-> propertyTaxAnnual,
     homeInsuranceAnnual |-> homeInsuranceAnnual, pmiRate |-> pmiRate,
     hoaFees |-> hoaFees, downPayment |-> downPayment,
     closingCosts |-> closingCosts]

\* the known-good input set: testInputs of TestMortgageCalc
KnownGood ==
    MortgageInputs(Num(300000), Rat(13, 2), Num(30), Num(3600), Num(1200),
                   Rat(1, 2), Num(100), Num(60000), Num(5000))

TermYears == {Num(y) : y \in 1..MaxTermYears}

\* an annual rate of 1e-15 percent: positive, and 1 + rate / 100 / 12 is 1
TinyRate == NumDiv(Num(1), MathPow(Num(10), Num(15)))

\* the input sets the calculation core is called with: finite amounts >= 0,
\* whole years, PMI rates absent, zero, in range and out of range
CalcInputs ==
    {MortgageInputs(la, ir, ty, Num(3600), Num(1200), pmi, hoa, dp, Undefined) :
        la \in {Zero, Num(80000), Num(85000)},
        ir \in {Zero, TinyRate, Num(6), Num(50)},
        ty \in TermYears,
        pmi \in {Undefined, Zero, Rat(1, 2), Num(11)},
        hoa \in {Undefined, Num(100)},
        dp \in {Zero, Num(15000), Num(20000)}}
    \cup {KnownGood}

Idle ==
    /\ pc = "idle"
    /\ i = 0
    /\ balance = NotCalled
    /\ cumulativeInterest = NotCalled
    /\ cumulativePrincipal = NotCalled
    /\ amortizationTable = << >>
    /\ targetDate = NotCalled
    /\ found = NotCalled

InitCalc ==
    /\ inputs \in CalcInputs
    /\ startDate = NotCalled
    /\ call = "none"
    /\ errors = NotCalled
    /\ payment = NotCalled
    /\ calculation = NotCalled
    /\ Idle
    /\ OutsideCalculatorIdle

CallValidateInputs ==
    /\ call = "none"
    /\ call' = "validateInputs"
    /\ errors' = validateInputs(inputs)
    /\ UNCHANGED << inputs, startDate, payment, calculation, tableVars, lookupVars >>
    /\ UNCHANGED outsideCalculator

CallCalculateMonthlyPayment ==
    /\ call = "none"
    /\ call' = "calculateMonthlyPayment"
    /\ payment' = calculateMonthlyPayment(inputs.loanAmount, inputs.interestRate,
                                          inputs.loanTermYears)
    /\ UNCHANGED << inputs, startDate, errors, calculation, tableVars, lookupVars >>
    /\ UNCHANGED outsideCalculator

CallCalculateMortgage ==
    /\ call = "none"
    /\ call' = "calculateMortgage"
    /\ calculation' = calculateMortgage(inputs)
    /\ UNCHANGED << inputs, startDate, errors, payment, tableVars, lookupVars >>
    /\ UNCHANGED outsideCalculator

NextCalc ==
    \/ CallValidateInputs
    \/ CallCalculateMonthlyPayment
    \/ CallCalculateMortgage

SpecCalc == InitCalc /\ [][NextCalc]_vars

(***************************************************************************)
(* generateAmortizationTable(inputs, startDate), one loop iteration a step *)
(***************************************************************************)

\* inputs.loanTermYears * 12
NumPayments(loanInputs) == NumMul(loanInputs.loanTermYears, Num(12))

\* cash purchases, with and without a down payment and a PMI rate
CashPurchases ==
    {MortgageInputs(Zero, ir, ty, Num(3600), Num(1200), pmi, Undefined, dp,
                    Undefined) :
        ir \in {Zero, TinyRate, Num(6)},
        ty \in TermYears,
        pmi \in {Undefined, Rat(1, 2)},
        dp \in {Zero, Num(20000)}}

\* loans of a cent, of twelve cents, of 12, of 1000 and of -1000, over whole
\* years and over no time at all
Loans ==
    {MortgageInputs(la, ir, ty, Num(3600), Num(1200), Undefined, Undefined, Zero,
                    Undefined) :
        la \in {Rat(1, 100), Rat(12, 100), Num(12), Num(1000), Num(-1000)},
        ir \in {Zero, TinyRate, Num(6)},
        ty \in TermYears \cup {Zero}}

TableInputs == CashPurchases \cup Loans

StartDates ==
    {[year |-> 2024, month |-> 0, day |-> 15],
     [year |-> 2023, month |-> 0, day |-> 31]}

InitAmort ==
    /\ inputs \in TableInputs
    /\ startDate \in StartDates
    /\ call = "none"
    /\ errors = NotCalled
    /\ payment = NotCalled
    /\ calculation = NotCalled
    /\ Idle
    /\ OutsideCalculatorIdle

\* GenBegin with the running totals declared outside the function, so
\* that they keep their values from one call to the next
GenBegin_KeepTotals ==
    /\ call = "none"
    /\ call' = "generateAmortizationTable"
    /\ calculation' = calculateMortgage(inputs)
    /\ amortizationTable' = << >>
    /\ balance' = inputs.loanAmount
    /\ cumulativeInterest' =
           IF cumulativeInterest = NotCalled THEN Zero ELSE cumulativeInterest
    /\ cumulativePrincipal' =
           IF cumulativePrincipal = NotCalled THEN Zero ELSE cumulativePrincipal
    /\ i' = 1
    /\ pc' = "loop"
    /\ UNCHANGED << inputs, startDate, errors, payment, lookupVars >>
    /\ UNCHANGED outsideCalculator

\* lines 178-188: the calculation, the local variables, let i = 1
GenBegin ==
    /\ call = "none"
    /\ call' = "generateAmortizationTable"
    /\ calculation' = calculateMortgage(inputs)
    /\ amortizationTable' = << >>
    /\ balance' = inputs.loanAmount
    /\ cumulativeInterest' = Zero
    /\ cumulativePrincipal' = Zero
    /\ i' = 1
    /\ pc' = "loop"
    /\ UNCHANGED << inputs, startDate, errors, payment, lookupVars >>
    /\ UNCHANGED outsideCalculator

\* PushEntry without balance = endingBalance
PushEntry_KeepBalance(entry) ==
    /\ amortizationTable' = Append(amortizationTable, entry)
    /\ balance' = balance
    /\ cumulativeInterest' = entry.cumulativeInterest
    /\ cumulativePrincipal' = entry.cumulativePrincipal
    /\ IF PaidOff(entry.endingBalance)
       THEN pc' = "done" /\ i' = i
       ELSE pc' = "loop" /\ i' = i + 1

\* lines 200-217: push the entry, carry the balance, break when paid off
PushEntry(entry) ==
    /\ amortizationTable' = Append(amortizationTable, entry)
    /\ balance' = entry.endingBalance
    /\ cumulativeInterest' = entry.cumulativeInterest
    /\ cumulativePrincipal' = entry.cumulativePrincipal
    /\ IF PaidOff(entry.endingBalance)
       THEN pc' = "done" /\ i' = i
       ELSE pc' = "loop" /\ i' = i + 1

\* one iteration of the loop, i <= numPayments
GenIterate ==
    /\ pc = "loop"
    /\ NumLe(Num(i), NumPayments(inputs))
    /\ PushEntry(AmortizationEntry(i, startDate, balance,
                     calculation.principalAndInterest, calculation.monthlyRate,
                     cumulativeInterest, cumulativePrincipal))
    /\ UNCHANGED << callVars, lookupVars >>
    /\ UNCHANGED outsideCalculator

\* the loop ends with i > numPayments; line 220 returns the table
GenExit ==
    /\ pc = "loop"
    /\ ~NumLe(Num(i), NumPayments(inputs))
    /\ pc' = "done"
    /\ UNCHANGED << callVars, i, balance, cumulativeInterest,
                    cumulativePrincipal, amortizationTable, lookupVars >>
    /\ UNCHANGED outsideCalculator

(***************************************************************************)
(* The lookups by date.  Each generates the table for its inputs and start *)
(* date (the steps above) and searches it for the target date.             *)
(***************************************************************************)

\* Find matching the year and the month only
Find_SameMonth(table, targetDateStr) ==
    IF \E k \in 1..Len(table) :
           /\ table[k].paymentDate[1] = targetDateStr[1]
           /\ table[k].paymentDate[2] = targetDateStr[2]
    THEN table[CHOOSE k \in 1..Len(table) :
                   /\ table[k].paymentDate[1] = targetDateStr[1]
                   /\ table[k].paymentDate[2] = targetDateStr[2]]
    ELSE Undefined

\* Array.prototype.find: the first entry with the payment date, or undefined
Find(table, targetDateStr) ==
    IF \E k \in 1..Len(table) : table[k].paymentDate = targetDateStr
    THEN table[CHOOSE k \in 1..Len(table) :
                   /\ table[k].paymentDate = targetDateStr
                   /\ \A j \in 1..(k - 1) : table[j].paymentDate # targetDateStr]
    ELSE Undefined

calculatePrincipalPaidByDate(table, target) ==
    IF Find(table, ISODate(target)) # Undefined
    THEN Find(table, ISODate(target)).cumulativePrincipal
    ELSE Zero

calculateRemainingBalance(loanInputs, table, target) ==
    IF Find(table, ISODate(target)) # Undefined
    THEN Find(table, ISODate(target)).endingBalance
    ELSE loanInputs.loanAmount

calculateInterestPaidByDate(table, target) ==
    IF Find(table, ISODate(target)) # Undefined
    THEN Find(table, ISODate(target)).cumulativeInterest
    ELSE Zero

\* target dates on a payment date, a day after one, on the start date and
\* after the last payment
TargetDates ==
    {[year |-> 2024, month |-> 1, day |-> 15],
     [year |-> 2024, month |-> 1, day |-> 16],
     [year |-> 2025, month |-> 0, day |-> 15],
     [year |-> 2023, month |-> 2, day |-> 3],
     [year |-> 2023, month |-> 1, day |-> 28],
     [year |-> 2024, month |-> 0, day |-> 15],
     [year |-> 2030, month |-> 5, day |-> 15]}

\* the table has been generated for inputs and startDate
TableGenerated == call = "generateAmortizationTable" /\ pc = "done"

CallCalculatePrincipalPaidByDate ==
    /\ TableGenerated
    /\ call' = "calculatePrincipalPaidByDate"
    /\ \E target \in TargetDates :
           /\ targetDate' = target
           /\ found' = calculatePrincipalPaidByDate(amortizationTable, target)
    /\ UNCHANGED << inputs, startDate, errors, payment, calculation, tableVars >>
    /\ UNCHANGED outsideCalculator

CallCalculateRemainingBalance ==
    /\ TableGenerated
    /\ call' = "calculateRemainingBalance"
    /\ \E target \in TargetDates :
           /\ targetDate' = target
           /\ found' = calculateRemainingBalance(inputs, amortizationTable,
                                                 target)
    /\ UNCHANGED << inputs, startDate, errors, payment, calculation, tableVars >>
    /\ UNCHANGED outsideCalculator

CallCalculateInterestPaidByDate ==
    /\ TableGenerated
    /\ call' = "calculateInterestPaidByDate"
    /\ \E target \in TargetDates :
           /\ targetDate' = target
           /\ found' = calculateInterestPaidByDate(amortizationTable, target)
    /\ UNCHANGED << inputs, startDate, errors, payment, calculation, tableVars >>
    /\ UNCHANGED outsideCalculator

NextAmort ==
    \/ GenBegin
    \/ GenIterate
    \/ GenExit
    \/ CallCalculatePrincipalPaidByDate
    \/ CallCalculateRemainingBalance
    \/ CallCalculateInterestPaidByDate

SpecAmort == InitAmort /\ [][NextAmort]_vars

(***************************************************************************)
(* Properties of the payment and of calculateMortgage, checked under       *)
(* SpecCalc.                                                               *)
(***************************************************************************)

\* the inputs pass validateInputs
Validated == validateInputs(inputs) = << >>

\* x and y differ by at most tol
Near(x, y, tol) == NumLe(NumSub(x, y), tol) /\ NumLe(NumSub(y, x), tol)

\* the number of payments as a natural number
PaymentCount == 12 * ToNat(inputs.loanTermYears)

\* the closed-form annuity value P*r*(1+r)^n / ((1+r)^n - 1) for r = a/b > 0,
\* with 1 + r = (a + b)/b computed exactly
ClosedForm(principal, r, n) ==
    NumDiv(NumMul(NumMul(principal, r),
                  MathPow(Fin(1, BAdd(r.n, r.d), r.d), Num(n))),
           NumSub(MathPow(Fin(1, BAdd(r.n, r.d), r.d), Num(n)), Num(1)))

\* C1: for a principal >= 0, an annual rate in (0, 50] and a term of 1..50
\* years calculateMonthlyPayment returns the closed-form annuity value for
\* r = rate/100/12 and n = years*12 to within 1e-6, and for the known-good
\* inputs the payment is 1896.20 to the cent.
C1_ClosedFormAnnuity ==
    call = "calculateMonthlyPayment" =>
        /\ (/\ NumGe(inputs.loanAmount, Zero)
            /\ NumGt(inputs.interestRate, Zero)
            /\ NumLe(inputs.interestRate, Num(50))
            /\ NumGe(inputs.loanTermYears, Num(1))
            /\ NumLe(inputs.loanTermYears, Num(50)))
           => Near(payment,
                   ClosedForm(inputs.loanAmount,
                              NumDiv(inputs.interestRate, Num(1200)),
                              PaymentCount),
                   Rat(1, 1000000))
        /\ inputs = KnownGood
           => /\ NumGe(payment, Rat(1896195, 1000))
              /\ NumLt(payment, Rat(1896205, 1000))

\* C2: at an annual rate of 0 calculateMonthlyPayment returns exactly
\* principal / (years*12), a number, for every principal and term.
C2_ZeroRatePayment ==
    (call = "calculateMonthlyPayment" /\ NumEq(inputs.interestRate, Zero))
        => NumEq(payment, NumDiv(inputs.loanAmount, Num(PaymentCount)))

C2_Witness ==
    /\ call = "calculateMonthlyPayment"
    /\ NumEq(inputs.interestRate, Zero)
    /\ inputs.loanTermYears = Num(2)
    /\ NumEq(payment, Rat(85000, 24))

\* C3: for validated inputs with loanAmount = 0 calculateMortgage returns
\* principalAndInterest = 0, totalInterest = 0 and pmiMonthly = 0, whatever
\* the interest rate, the term and the PMI rate.
C3_CashPurchaseZero ==
    (call = "calculateMortgage" /\ Validated /\ NumEq(inputs.loanAmount, Zero))
        => /\ NumEq(calculation.principalAndInterest, Zero)
           /\ NumEq(calculation.totalInterest, Zero)
           /\ NumEq(calculation.pmiMonthly, Zero)

\* C5: when downPayment / (loanAmount + downPayment) >= 0.20
\* calculateMortgage returns pmiMonthly = 0 and totalPMI = 0, whatever PMI
\* rate is supplied.
C5_NoPMIFromTwentyPercent ==
    (/\ call = "calculateMortgage"
     /\ NumGe(NumDiv(inputs.downPayment,
                     NumAdd(inputs.loanAmount, inputs.downPayment)),
              Rat(1, 5)))
        => /\ NumEq(calculation.pmiMonthly, Zero)
           /\ NumEq(calculation.totalPMI, Zero)

C5_Witness ==
    /\ call = "calculateMortgage"
    /\ inputs.loanAmount = Num(80000)
    /\ inputs.downPayment = Num(20000)
    /\ inputs.pmiRate = Rat(1, 2)
    /\ NumEq(calculation.totalPMI, Zero)

\* the down payment is strictly less than 20% of the purchase price and a
\* PMI rate is supplied
PMIApplies ==
    /\ NumLt(NumMul(inputs.downPayment, Num(5)),
             NumAdd(inputs.loanAmount, inputs.downPayment))
    /\ IsNumber(inputs.pmiRate)

\* C6: when the down payment is strictly less than 20% of the purchase price
\* and a PMI rate is supplied, calculateMortgage returns
\* pmiMonthly = loanAmount * pmiRate / 100 / 12; in every other case
\* pmiMonthly is 0.
C6_PMIBelowTwentyPercent ==
    call = "calculateMortgage" =>
        IF PMIApplies
        THEN NumEq(calculation.pmiMonthly,
                   NumDiv(NumMul(inputs.loanAmount, inputs.pmiRate), Num(1200)))
        ELSE NumEq(calculation.pmiMonthly, Zero)

C6_Witness ==
    /\ call = "calculateMortgage"
    /\ PMIApplies
    /\ inputs.loanAmount = Num(85000)
    /\ inputs.downPayment = Num(15000)
    /\ NumEq(calculation.pmiMonthly, Rat(85000, 2400))

(***************************************************************************)
(* Properties of the amortization table, checked under SpecAmort.          *)
(***************************************************************************)

\* generateAmortizationTable has returned
Returned == call = "generateAmortizationTable" /\ pc = "done"

\* x and y are the same value, NaN being the same value as NaN
SameValue(x, y) == NumEq(x, y) \/ (IsNaN(x) /\ IsNaN(y))

\* x and y are the same value or differ by at most 1e-6
WithinTolerance(x, y) == SameValue(x, y) \/ Near(x, y, Rat(1, 1000000))

\* every numeric field of a MortgageCalculation is a finite number
FiniteCalculation(c) ==
    /\ IsFinite(c.loanAmount) /\ IsFinite(c.downPayment)
    /\ IsFinite(c.purchasePrice) /\ IsFinite(c.principalAndInterest)
    /\ IsFinite(c.propertyTaxMonthly) /\ IsFinite(c.homeInsuranceMonthly)
    /\ IsFinite(c.pmiMonthly) /\ IsFinite(c.hoaFeesMonthly)
    /\ IsFinite(c.totalMonthlyPayment) /\ IsFinite(c.totalInterest)
    /\ IsFinite(c.totalPayments) /\ IsFinite(c.totalPMI)
    /\ IsFinite(c.interestRate) /\ IsFinite(c.loanTermYears)
    /\ IsFinite(c.monthlyRate)

\* every numeric field of an AmortizationEntry is a finite number
FiniteEntry(e) ==
    /\ IsFinite(e.beginningBalance) /\ IsFinite(e.monthlyPayment)
    /\ IsFinite(e.principalPayment) /\ IsFinite(e.interestPayment)
    /\ IsFinite(e.endingBalance) /\ IsFinite(e.cumulativeInterest)
    /\ IsFinite(e.cumulativePrincipal)

\* C4: for validated inputs with loanAmount = 0, downPayment = 0 included,
\* every numeric field of the result of calculateMortgage and of every entry
\* of the table of generateAmortizationTable is a finite number.
C4_CashPurchaseFinite ==
    (Returned /\ Validated /\ NumEq(inputs.loanAmount, Zero))
        => /\ FiniteCalculation(calculation)
           /\ \A k \in 1..Len(amortizationTable) :
                  FiniteEntry(amortizationTable[k])

\* C7: every entry of the returned table has
\* endingBalance = max(0, beginningBalance - principalPayment), and no entry
\* has a negative ending balance.
C7_EndingBalanceClamped ==
    Returned =>
        \A k \in 1..Len(amortizationTable) :
            /\ SameValue(amortizationTable[k].endingBalance,
                         IF NumLt(NumSub(amortizationTable[k].beginningBalance,
                                         amortizationTable[k].principalPayment),
                                  Zero)
                         THEN Zero
                         ELSE NumSub(amortizationTable[k].beginningBalance,
                                     amortizationTable[k].principalPayment))
            /\ ~NumLt(amortizationTable[k].endingBalance, Zero)

\* a returned table whose first entry pays more principal than is owed
C7_Witness ==
    /\ Returned
    /\ Len(amortizationTable) >= 1
    /\ NumLt(NumSub(amortizationTable[1].beginningBalance,
                    amortizationTable[1].principalPayment), Zero)
    /\ NumEq(amortizationTable[1].endingBalance, Zero)

\* C8: every entry of the returned table except possibly the last has
\* principalPayment + interestPayment = monthlyPayment, with
\* interestPayment = beginningBalance * monthlyRate and monthlyPayment the
\* principalAndInterest of calculateMortgage for the same inputs.
C8_PaymentSplit ==
    Returned =>
        \A k \in 1..(Len(amortizationTable) - 1) :
            /\ WithinTolerance(NumAdd(amortizationTable[k].principalPayment,
                                      amortizationTable[k].interestPayment),
                               amortizationTable[k].monthlyPayment)
            /\ SameValue(amortizationTable[k].interestPayment,
                         NumMul(amortizationTable[k].beginningBalance,
                                NumDiv(NumDiv(inputs.interestRate, Num(100)),
                                       Num(12))))
            /\ SameValue(amortizationTable[k].monthlyPayment,
                         calculateMortgage(inputs).principalAndInterest)

\* C9: in the returned table the first entry's beginningBalance is the loan
\* amount, the endingBalance of each entry is the beginningBalance of the
\* next, and the payment numbers are 1, 2, 3, ... without gaps.
C9_BalanceChain ==
    Returned =>
        /\ Len(amortizationTable) >= 1
               => SameValue(amortizationTable[1].beginningBalance,
                            inputs.loanAmount)
        /\ \A k \in 1..Len(amortizationTable) :
               amortizationTable[k].paymentNumber = k
        /\ \A k \in 1..(Len(amortizationTable) - 1) :
               SameValue(amortizationTable[k].endingBalance,
                         amortizationTable[k + 1].beginningBalance)

\* a returned table of 24 entries whose balance falls
C9_Witness ==
    /\ Returned
    /\ Len(amortizationTable) = 24
    /\ NumLt(amortizationTable[24].beginningBalance,
             amortizationTable[1].beginningBalance)

\* the last entry of the table
LastEntry == amortizationTable[Len(amortizationTable)]

\* C10 as stated: for validated inputs the table has at most
\* loanTermYears*12 entries, and fewer only when the cumulative principal of
\* its last entry has reached the loan amount.
C10_EarlyStopPrincipalRepaid ==
    (Returned /\ Validated) =>
        /\ Len(amortizationTable) <= PaymentCount
        /\ Len(amortizationTable) < PaymentCount
               => NumGe(LastEntry.cumulativePrincipal, inputs.loanAmount)

\* C10 amended: for validated inputs the table has at most loanTermYears*12
\* entries, and fewer only when the ending balance of its last entry is at
\* most 0.01.
C10_EarlyStopWithinACent ==
    (Returned /\ Validated) =>
        /\ Len(amortizationTable) <= PaymentCount
        /\ Len(amortizationTable) < PaymentCount
               => NumLe(LastEntry.endingBalance, Rat(1, 100))

\* a table that stops early with part of the loan not repaid
C10_Witness ==
    /\ Returned
    /\ Validated
    /\ Len(amortizationTable) < PaymentCount
    /\ NumLt(LastEntry.cumulativePrincipal, inputs.loanAmount)
    /\ NumGt(LastEntry.endingBalance, Zero)

\* C11: generateAmortizationTable stops at the first payment whose ending
\* balance is <= 0.01 or at payment number loanTermYears*12: in the returned
\* table every entry other than the last has endingBalance > 0.01, and a
\* last entry with endingBalance > 0.01 has paymentNumber = loanTermYears*12.
C11_StopsAtFirstPaidOff ==
    Returned =>
        /\ \A k \in 1..(Len(amortizationTable) - 1) :
               NumGt(amortizationTable[k].endingBalance, Rat(1, 100))
        /\ (/\ Len(amortizationTable) >= 1
            /\ NumGt(LastEntry.endingBalance, Rat(1, 100)))
               => NumEq(Num(LastEntry.paymentNumber), NumPayments(inputs))

(***************************************************************************)
(* validateInputs on its own: input sets that pass and that fail each of   *)
(* its checks, at and on both sides of every limit.                        *)
(***************************************************************************)
ValidationInputs ==
    {MortgageInputs(la, ir, ty, tax, ins, pmi, hoa, dp, cc) :
        la \in {Num(-1000), Zero, Num(300000)},
        ir \in {Num(-1), Zero, Num(50), Num(55)},
        ty \in {Zero, Rat(1, 2), Num(1), Num(50), Num(51)},
        tax \in {Num(-1), Num(3600)},
        ins \in {Num(-1), Num(1200)},
        pmi \in {Undefined, Zero, Num(-1), Num(10), Num(11)},
        hoa \in {Undefined, Num(-1), Num(100)},
        dp \in {Num(-1), Zero, Num(60000)},
        cc \in {Undefined, Num(-1), Num(5000)}}
    \cup {KnownGood}

InitValidate ==
    /\ inputs \in ValidationInputs
    /\ startDate = NotCalled
    /\ call = "none"
    /\ errors = NotCalled
    /\ payment = NotCalled
    /\ calculation = NotCalled
    /\ Idle
    /\ OutsideCalculatorIdle

NextValidate == CallValidateInputs

SpecValidate == InitValidate /\ [][NextValidate]_vars

(***************************************************************************)
(* Properties of validateInputs, checked under SpecValidate.               *)
(***************************************************************************)

\* x is a number of the closed interval [lo, hi]
InRange(x, lo, hi) == NumGe(x, Num(lo)) /\ NumLe(x, Num(hi))

\* an optional field is present
Present(x) == x # Undefined

RateInRange == InRange(inputs.interestRate, 0, 50)
TermInRange == InRange(inputs.loanTermYears, 1, 50)
DownPaymentNonNegative == NumGe(inputs.downPayment, Zero)
DownPaymentWithinPrice ==
    NumLe(inputs.downPayment, NumAdd(inputs.loanAmount, inputs.downPayment))
PropertyTaxNonNegative == NumGe(inputs.propertyTaxAnnual, Zero)
InsuranceNonNegative == NumGe(inputs.homeInsuranceAnnual, Zero)
PMIRateInRange == Present(inputs.pmiRate) => InRange(inputs.pmiRate, 0, 10)
HOANonNegative == Present(inputs.hoaFees) => NumGe(inputs.hoaFees, Zero)
ClosingCostsNonNegative ==
    Present(inputs.closingCosts) => NumGe(inputs.closingCosts, Zero)

\* C12: validateInputs returns the empty list exactly when the interest rate
\* is in [0, 50], the loan term in [1, 50] years, the down payment >= 0 and
\* <= loan amount + down payment, property tax >= 0, home insurance >= 0,
\* the PMI rate, if present, in [0, 10], the HOA fee, if present, >= 0 and
\* the closing costs, if present, >= 0; it returns the empty list for the
\* known-good set.
C12_EmptyExactlyWhenValid ==
    call = "validateInputs" =>
        /\ (errors = << >>) <=>
               (/\ RateInRange /\ TermInRange
                /\ DownPaymentNonNegative /\ DownPaymentWithinPrice
                /\ PropertyTaxNonNegative /\ InsuranceNonNegative
                /\ PMIRateInRange /\ HOANonNegative /\ ClosingCostsNonNegative)
        /\ inputs = KnownGood => errors = << >>

\* the error string of a check that does not hold
Flag(holds, msg) == IF holds THEN << >> ELSE << msg >>

\* C13: the list returned by validateInputs holds one error string per
\* violated check and no other, in the order rate, term, negative down
\* payment, down payment above purchase price, property tax, insurance,
\* PMI rate, HOA, closing costs.
C13_OneErrorPerViolatedCheck ==
    call = "validateInputs" =>
        errors =
            Flag(RateInRange, "Interest rate must be between 0% and 50%")
            \o Flag(TermInRange, "Loan term must be between 1 and 50 years")
            \o Flag(DownPaymentNonNegative, "Down payment cannot be negative")
            \o Flag(DownPaymentWithinPrice,
                    "Down payment cannot be greater than purchase price")
            \o Flag(PropertyTaxNonNegative, "Property tax cannot be negative")
            \o Flag(InsuranceNonNegative, "Home insurance cannot be negative")
            \o Flag(PMIRateInRange, "PMI rate must be between 0% and 10%")
            \o Flag(HOANonNegative, "HOA fees cannot be negative")
            \o Flag(ClosingCostsNonNegative, "Closing costs cannot be negative")

(***************************************************************************)
(* Properties of the lookups by date, checked under SpecAmort.             *)
(***************************************************************************)

\* the payment numbers of the entries paid on the normalized target date
MatchingPayments ==
    {k \in 1..Len(amortizationTable) :
        amortizationTable[k].paymentDate = ISODate(targetDate)}

\* the first entry paid on the target date
FirstMatch ==
    amortizationTable[CHOOSE k \in MatchingPayments :
                          \A j \in MatchingPayments : k <= j]

\* C14: a lookup by date returns the cumulativePrincipal, cumulativeInterest
\* or endingBalance of the first entry of the table whose payment date is
\* the normalized target date; when no entry has that date it returns 0 for
\* principal paid and interest paid and the loan amount for the remaining
\* balance.
C14_LookupByExactDate ==
    /\ call = "calculatePrincipalPaidByDate" =>
           found = IF MatchingPayments # {}
                   THEN FirstMatch.cumulativePrincipal ELSE Zero
    /\ call = "calculateInterestPaidByDate" =>
           found = IF MatchingPayments # {}
                   THEN FirstMatch.cumulativeInterest ELSE Zero
    /\ call = "calculateRemainingBalance" =>
           found = IF MatchingPayments # {}
                   THEN FirstMatch.endingBalance ELSE inputs.loanAmount

\* a lookup that finds a later entry of the table, with principal paid
C14_Witness ==
    /\ call = "calculatePrincipalPaidByDate"
    /\ MatchingPayments = {12}
    /\ found = amortizationTable[12].cumulativePrincipal
    /\ NumGt(found, Zero)

(***************************************************************************)
(* LocalStorageService.  The array of scenarios is written with            *)
(* JSON.stringify and read back with JSON.parse: storage holds what        *)
(* JSON.parse returns for the string last written.  An id is               *)
(* "scenario_" and the clock reading, a timestamp is the clock reading.    *)
(***************************************************************************)
Null == [k |-> "null"]

\* JSON.parse(JSON.stringify(x)) of a number or of an optional field: NaN
\* and the infinities are written as null, an undefined field is left out
\* and reads back as undefined
JSONNumber(x) ==
    IF x.k = "fin" THEN x
    ELSE IF x.k = "undef" THEN Undefined
    ELSE Null

\* of a MortgageInputs or a MortgageCalculation
JSONNumbers(object) == [f \in DOMAIN object |-> JSONNumber(object[f])]

\* of an AmortizationEntry
JSONEntry(entry) ==
    [f \in DOMAIN entry |->
        IF f \in {"paymentNumber", "paymentDate"}
        THEN entry[f]
        ELSE JSONNumber(entry[f])]

\* of a SavedScenario
JSONScenario(scenario) ==
    [id |-> scenario.id,
     name |-> scenario.name,
     inputs |-> JSONNumbers(scenario.inputs),
     calculation |-> JSONNumbers(scenario.calculation),
     amortization |-> [k \in 1..Len(scenario.amortization) |->
                          JSONEntry(scenario.amortization[k])],
     createdAt |-> scenario.createdAt,
     updatedAt |-> scenario.updatedAt]

\* of the array of scenarios
JSONScenarios(scenarios) ==
    [k \in 1..Len(scenarios) |-> JSONScenario(scenarios[k])]

getAllScenarios == storage

\* scenarios.findIndex((s) => s.id === id), 0 for -1
FindIndex(scenarios, id) ==
    IF \E k \in 1..Len(scenarios) : scenarios[k].id = id
    THEN CHOOSE k \in 1..Len(scenarios) :
             /\ scenarios[k].id = id
             /\ \A j \in 1..(k - 1) : scenarios[j].id # id
    ELSE 0

getScenario(scenarios, id) ==
    IF FindIndex(scenarios, id) # 0
    THEN scenarios[FindIndex(scenarios, id)]
    ELSE Null

\* the scenario saveScenario builds at clock reading time
NewScenario(name, snapshot, time) ==
    [id |-> << "scenario", time >>,
     name |-> name,
     inputs |-> snapshot.inputs,
     calculation |-> snapshot.calculation,
     amortization |-> snapshot.amortization,
     createdAt |-> time,
     updatedAt |-> time]

\* the scenario updateScenario builds from the stored one
UpdatedScenario(stored, name, snapshot, time) ==
    [stored EXCEPT !.name = name,
                   !.inputs = snapshot.inputs,
                   !.calculation = snapshot.calculation,
                   !.amortization = snapshot.amortization,
                   !.updatedAt = time]

\* filter with === for !==: the scenarios that have the id
RECURSIVE Filter_Matching(_, _)
Filter_Matching(scenarios, id) ==
    IF scenarios = << >> THEN << >>
    ELSE IF Head(scenarios).id # id THEN Filter_Matching(Tail(scenarios), id)
    ELSE << Head(scenarios) >> \o Filter_Matching(Tail(scenarios), id)

\* scenarios.filter((s) => s.id !== id)
RECURSIVE Filter(_, _)
Filter(scenarios, id) ==
    IF scenarios = << >> THEN << >>
    ELSE IF Head(scenarios).id = id THEN Filter(Tail(scenarios), id)
    ELSE << Head(scenarios) >> \o Filter(Tail(scenarios), id)

MaxScenarios == 2
MaxClock == 2

ScenarioNames == {"A", "B"}

\* the inputs, their calculation and their table of one entry
SnapshotOf(loanInputs, loanCalculation) ==
    [inputs |-> loanInputs,
     calculation |-> loanCalculation,
     amortization |->
         << AmortizationEntry(1, [year |-> 2024, month |-> 0, day |-> 15],
                loanInputs.loanAmount, loanCalculation.principalAndInterest,
                loanCalculation.monthlyRate, Zero, Zero) >>]

\* what the page passes to saveScenario for loanInputs: the inputs, their
\* calculation and their table, which for the loans below has one entry
Snapshot(loanInputs) == SnapshotOf(loanInputs, calculateMortgage(loanInputs))

\* a loan of a cent at 0% and at 6%, and a loan of 1000 at the tiny rate,
\* whose payment is Infinity
SnapshotInputs ==
    {MortgageInputs(Rat(1, 100), Zero, Num(1), Num(3600), Num(1200),
         Undefined, Undefined, Zero, Undefined),
     MortgageInputs(Rat(1, 100), Num(6), Num(1), Num(3600), Num(1200),
         Undefined, Num(100), Zero, Undefined),
     MortgageInputs(Num(1000), TinyRate, Num(1), Num(3600), Num(1200),
         Undefined, Undefined, Zero, Undefined)}

Snapshots == {Snapshot(loanInputs) : loanInputs \in SnapshotInputs}

\* the ids a caller may hold, stored or not
ScenarioIds == {<< "scenario", time >> : time \in 0..MaxClock}

CalculatorIdle ==
    /\ inputs = NotCalled
    /\ startDate = NotCalled
    /\ call = "none"
    /\ errors = NotCalled
    /\ payment = NotCalled
    /\ calculation = NotCalled
    /\ Idle

InitStore ==
    /\ StoreIdle
    /\ snapshots = Snapshots
    /\ CalculatorIdle
    /\ CallerIdle
    /\ ExportIdle
    /\ UIIdle
    /\ ThemeIdle

\* a millisecond passes
Tick ==
    /\ now < MaxClock
    /\ now' = now + 1
    /\ UNCHANGED << storage, op, returned, snapshots >>
    /\ UNCHANGED outsideStore

SaveScenario ==
    /\ Len(storage) < MaxScenarios
    /\ \E name \in ScenarioNames, snapshot \in snapshots :
           /\ op' = [fn |-> "saveScenario", name |-> name,
                     snapshot |-> snapshot]
           /\ storage' = JSONScenarios(
                  Append(getAllScenarios, NewScenario(name, snapshot, now)))
           /\ returned' = NewScenario(name, snapshot, now)
    /\ UNCHANGED << now, snapshots >>
    /\ UNCHANGED outsideStore

GetScenario ==
    /\ \E id \in ScenarioIds :
           /\ op' = [fn |-> "getScenario", id |-> id]
           /\ returned' = getScenario(getAllScenarios, id)
    /\ UNCHANGED << storage, now, snapshots >>
    /\ UNCHANGED outsideStore

UpdateScenario ==
    /\ \E id \in ScenarioIds, name \in ScenarioNames, snapshot \in snapshots :
           /\ op' = [fn |-> "updateScenario", id |-> id, name |-> name,
                     snapshot |-> snapshot]
           /\ IF FindIndex(getAllScenarios, id) = 0
              THEN /\ returned' = Null
                   /\ storage' = storage
              ELSE /\ returned' =
                          UpdatedScenario(
                              getAllScenarios[FindIndex(getAllScenarios, id)],
                              name, snapshot, now)
                   /\ storage' = JSONScenarios(
                          [getAllScenarios EXCEPT
                              ![FindIndex(getAllScenarios, id)] = returned'])
    /\ UNCHANGED << now, snapshots >>
    /\ UNCHANGED outsideStore

DeleteScenario ==
    /\ \E id \in ScenarioIds :
           /\ op' = [fn |-> "deleteScenario", id |-> id]
           /\ IF Len(Filter(getAllScenarios, id)) = Len(getAllScenarios)
              THEN /\ returned' = FALSE
                   /\ storage' = storage
              ELSE /\ returned' = TRUE
                   /\ storage' = JSONScenarios(Filter(getAllScenarios, id))
    /\ UNCHANGED << now, snapshots >>
    /\ UNCHANGED outsideStore

NextStore ==
    \/ Tick
    \/ SaveScenario
    \/ GetScenario
    \/ UpdateScenario
    \/ DeleteScenario

SpecStore == InitStore /\ [][NextStore]_vars

\* the store when every save and update passes the same snapshot, the one of
\* the loan of a cent at 0%
InitOneSnapshot ==
    /\ StoreIdle
    /\ snapshots = {Snapshot(MortgageInputs(Rat(1, 100), Zero, Num(1),
                        Num(3600), Num(1200), Undefined, Undefined, Zero,
                        Undefined))}
    /\ CalculatorIdle
    /\ CallerIdle
    /\ ExportIdle
    /\ UIIdle
    /\ ThemeIdle

SpecOneSnapshot == InitOneSnapshot /\ [][NextStore]_vars

(***************************************************************************)
(* Properties of the scenario store, checked under SpecStore.              *)
(***************************************************************************)

\* saveScenario has just returned the scenario that getScenario finds under
\* its id, equal in every field
SaveRoundTrip ==
    SaveScenario => getScenario(storage', returned'.id) = returned'

\* updateScenario of a stored id has just left under that id a scenario with
\* the same id and createdAt, the new name, inputs, calculation and
\* amortization, and a later updatedAt
UpdateRoundTrip ==
    (UpdateScenario /\ returned' # Null) =>
        /\ getScenario(storage', op'.id).id = op'.id
        /\ getScenario(storage', op'.id).createdAt
               = getScenario(storage, op'.id).createdAt
        /\ getScenario(storage', op'.id).name = op'.name
        /\ getScenario(storage', op'.id).inputs = op'.snapshot.inputs
        /\ getScenario(storage', op'.id).calculation = op'.snapshot.calculation
        /\ getScenario(storage', op'.id).amortization
               = op'.snapshot.amortization
        /\ getScenario(storage', op'.id).updatedAt
               > getScenario(storage, op'.id).updatedAt

\* a save, an update or a delete leaves what getScenario finds under every
\* other id as it was
OtherScenariosKept ==
    /\ SaveScenario =>
           \A id \in ScenarioIds \ {returned'.id} :
               getScenario(storage', id) = getScenario(storage, id)
    /\ (UpdateScenario \/ DeleteScenario) =>
           \A id \in ScenarioIds \ {op'.id} :
               getScenario(storage', id) = getScenario(storage, id)

\* C15: after saveScenario returns scenario s, getScenario(s.id) returns an
\* object equal to s in every field; after updateScenario(s.id, ...) the
\* stored scenario keeps its id and createdAt, holds the new name, inputs,
\* calculation and amortization, and its updatedAt has advanced; saves,
\* updates and deletes of other scenarios change none of this.
C15_ScenarioRoundTrip ==
    [][SaveRoundTrip /\ UpdateRoundTrip /\ OtherScenariosKept]_vars

(***************************************************************************)
(* A caller that calls the calculation core again and again: it takes the  *)
(* result of a finished call and passes the arguments of the next.  The    *)
(* calculator's variables keep what the last call left in them.            *)
(***************************************************************************)
MaxCalls == 3

\* a loan of 0 at a rate 1 + r/1200 absorbs, whose table runs the whole term,
\* and a loan of 1000 at 0%, paid off at the last payment
RepeatInputs ==
    {MortgageInputs(Zero, TinyRate, Num(1), Num(3600), Num(1200), Undefined,
         Undefined, Zero, Undefined),
     MortgageInputs(Num(1000), Zero, Num(1), Num(3600), Num(1200), Rat(1, 2),
         Undefined, Zero, Undefined)}

RepeatStartDates == {[year |-> 2023, month |-> 0, day |-> 31]}

InitCalls ==
    /\ inputs \in RepeatInputs
    /\ startDate \in RepeatStartDates
    /\ call = "none"
    /\ errors = NotCalled
    /\ payment = NotCalled
    /\ calculation = NotCalled
    /\ Idle
    /\ OutsideCalculatorIdle

\* the call has returned
Finished ==
    \/ call \in {"validateInputs", "calculateMortgage"}
    \/ call = "generateAmortizationTable" /\ pc = "done"

\* what the call returned
Result ==
    CASE call = "validateInputs" -> errors
      [] call = "calculateMortgage" -> calculation
      [] call = "generateAmortizationTable" -> amortizationTable

\* the caller takes the result and chooses the arguments of its next call
Return ==
    /\ Finished
    /\ Len(log) < MaxCalls
    /\ log' = Append(log, [fn |-> call, inputs |-> inputs,
                           startDate |-> startDate, result |-> Result])
    /\ call' = "none"
    /\ inputs' \in RepeatInputs
    /\ startDate' \in RepeatStartDates
    /\ UNCHANGED << errors, payment, calculation, tableVars, lookupVars,
                    storeVars, uiVars, themeVars, exportVars >>

NextCalls ==
    \/ CallValidateInputs
    \/ CallCalculateMortgage
    \/ GenBegin
    \/ GenIterate
    \/ GenExit
    \/ Return

SpecCalls == InitCalls /\ [][NextCalls]_vars

(***************************************************************************)
(* The claim checked against SpecCalls                                     *)
(***************************************************************************)
\* the arguments a call was made with; the start date is one only of
\* generateAmortizationTable
SameCall(a, b) ==
    /\ a.fn = b.fn
    /\ a.inputs = b.inputs
    /\ a.fn = "generateAmortizationTable" => a.startDate = b.startDate

EqualResults ==
    \A a, b \in 1..Len(log) : SameCall(log[a], log[b]) => log[a].result = log[b].result

\* a step of the calculator, as opposed to the caller passing new arguments
ArgumentsKept == log' = log => inputs' = inputs /\ startDate' = startDate

\* C16: calculateMortgage, validateInputs and generateAmortizationTable with
\* an explicit start date keep no state between calls: whatever calls were
\* made before and between, two calls with equal arguments return equal
\* results, and no step of a call changes the inputs or the start date it
\* was passed.
C16_CalculationCoreStateless == [][ArgumentsKept /\ EqualResults']_vars

\* the same table was generated twice for the loan of 1000, with a different
\* call in between
C16_Witness ==
    /\ Len(log) = 3
    /\ log[1].fn = "generateAmortizationTable"
    /\ Len(log[1].result) = 12
    /\ IsFinite(log[1].result[12].cumulativePrincipal)
    /\ SameCall(log[1], log[3])
    /\ ~SameCall(log[1], log[2])
    /\ log[1].result = log[3].result

(***************************************************************************)
(* The calculator component, src/routes/demo.daisyui.tsx.  A change of an  *)
(* input sets the state inputs; the next render computes the two memos     *)
(* from it; the update effect of that render, which runs after it, sets    *)
(* the states the component displays.                                      *)
(***************************************************************************)
\* lines 174-221 as one call: the loop from payment i on
RECURSIVE AmortizationLoop(_, _, _, _, _, _, _, _)
AmortizationLoop(loanInputs, start, loanCalculation, k, bal, cumInterest, cumPrincipal, table) ==
    IF ~NumLe(Num(k), NumPayments(loanInputs)) THEN table
    ELSE LET entry == AmortizationEntry(k, start, bal,
                          loanCalculation.principalAndInterest,
                          loanCalculation.monthlyRate, cumInterest, cumPrincipal)
         IN  IF PaidOff(entry.endingBalance) THEN Append(table, entry)
             ELSE AmortizationLoop(loanInputs, start, loanCalculation, k + 1,
                      entry.endingBalance, entry.cumulativeInterest,
                      entry.cumulativePrincipal, Append(table, entry))

generateAmortizationTable(loanInputs, start) ==
    AmortizationLoop(loanInputs, start, calculateMortgage(loanInputs), 1,
        loanInputs.loanAmount, Zero, Zero, << >>)

\* the default startDate = new Date() of the component's call
Today == [year |-> 2024, month |-> 0, day |-> 15]

\* lines 438-457 without the test of validationErrors
CalculationResultMemo_Ungated(loanInputs, validationErrs) ==
    [calculation |-> calculateMortgage(loanInputs),
     amortization |-> generateAmortizationTable(loanInputs, Today)]

\* lines 438-457: null when validation failed, else the calculation and the
\* table; neither function throws, so the catch branch returns nothing
CalculationResultMemo(loanInputs, validationErrs) ==
    IF Len(validationErrs) > 0 THEN Null
    ELSE [calculation |-> calculateMortgage(loanInputs),
          amortization |-> generateAmortizationTable(loanInputs, Today)]

\* DEFAULT_INPUTS overridden by the prop initialInputs: a loan of 12 for a
\* year at 0%, with no down payment and with one of 50%
InitialInputs ==
    {MortgageInputs(Num(12), Zero, Num(1), Num(3600), Num(1200), Rat(1, 2),
         Zero, Zero, Zero),
     MortgageInputs(Num(12), Zero, Num(1), Num(3600), Num(1200), Rat(1, 2),
         Zero, Num(12), Zero)}

\* what the user may type into a field whose onChange passes the value to
\* handleInputChange as it is (lines 736, 906, 947)
FieldValues ==
    [interestRate |-> {Zero, Num(55)},
     pmiRate |-> {Rat(1, 2), Zero},
     closingCosts |-> {Zero, Num(5000)}]

\* the purchase price the form shows, lines 561-564
PurchasePrice(loanInputs) == NumAdd(loanInputs.loanAmount, loanInputs.downPayment)

InitUI ==
    /\ uiInputs \in InitialInputs
    /\ uiCalculation = Null
    /\ uiAmortizationTable = << >>
    /\ calculationError = Null
    /\ rendered = NotCalled
    /\ validationErrors = NotCalled
    /\ calculationResult = NotCalled
    /\ renderPending = TRUE
    /\ effectPending = FALSE
    /\ calculated = {}
    /\ completed = {}
    /\ currentCalculation = Null
    /\ enteredPrice = PurchasePrice(uiInputs)
    /\ edits = 0
    /\ CalculatorIdle
    /\ StoreIdle
    /\ snapshots = {}
    /\ CallerIdle
    /\ ExportIdle
    /\ ThemeIdle

\* lines 486-496: setInputs with one field replaced; React renders later
HandleInputChange ==
    /\ \E field \in DOMAIN FieldValues : \E value \in FieldValues[field] :
           uiInputs' = [uiInputs EXCEPT ![field] = value]
    /\ renderPending' = TRUE
    /\ UNCHANGED << uiCalculation, uiAmortizationTable, calculationError,
                    rendered, validationErrors, calculationResult,
                    effectPending, calculated, completed, pageVars, formVars >>
    /\ UNCHANGED outsideUI

\* a render, lines 408-457, after the effect of the last one has run.  The
\* memos are computed again when inputs has changed; the effect is scheduled
\* when calculationResult is another value than at the last render (a new
\* object, or null after an object)
Render ==
    /\ renderPending
    /\ ~effectPending
    /\ renderPending' = FALSE
    /\ rendered' = uiInputs
    /\ IF rendered = uiInputs
       THEN UNCHANGED << validationErrors, calculationResult, effectPending,
                         calculated >>
       ELSE /\ validationErrors' = validateInputs(uiInputs)
            /\ calculationResult' =
                   CalculationResultMemo(uiInputs, validationErrors')
            /\ effectPending' =
                   ~(calculationResult = Null /\ calculationResult' = Null)
            /\ calculated' =
                   IF calculationResult' = Null THEN calculated
                   ELSE calculated \cup {uiInputs}
    /\ UNCHANGED << uiInputs, uiCalculation, uiAmortizationTable,
                    calculationError, completed, pageVars, formVars >>
    /\ UNCHANGED outsideUI

\* the page's handleCalculationComplete keeping no inputs at all
HandleCalculationComplete_NoInputs(loanCalculation, amortization) ==
    [calculation |-> loanCalculation,
     amortization |-> amortization,
     inputs |-> Null]

\* the page's handleCalculationComplete, api.google-sheets-export.ts lines
\* 105-128: the value it sets currentCalculation to, its inputs put together
\* from the calculation
HandleCalculationComplete(loanCalculation, amortization) ==
    [calculation |-> loanCalculation,
     amortization |-> amortization,
     inputs |->
         MortgageInputs(
             loanCalculation.loanAmount,
             loanCalculation.interestRate,
             loanCalculation.loanTermYears,
             NumMul(loanCalculation.propertyTaxMonthly, Num(12)),
             NumMul(loanCalculation.homeInsuranceMonthly, Num(12)),
             IF NumGt(loanCalculation.pmiMonthly, Zero)
             THEN NumMul(NumDiv(NumMul(loanCalculation.pmiMonthly, Num(12)),
                                loanCalculation.loanAmount), Num(100))
             ELSE Undefined,
             loanCalculation.hoaFeesMonthly,
             loanCalculation.downPayment,
             Undefined)]

\* lines 459-484: the update effect, which on a result calls the page's
\* handleCalculationComplete; its state updates are rendered with the next
\* render
UpdateEffect ==
    /\ effectPending
    /\ effectPending' = FALSE
    /\ renderPending' = TRUE
    /\ IF calculationResult = Null
       THEN /\ calculationError' = Null
            /\ uiCalculation' = Null
            /\ uiAmortizationTable' = << >>
            /\ completed' = completed
            /\ currentCalculation' = currentCalculation
       ELSE /\ calculationError' = Null
            /\ uiCalculation' = calculationResult.calculation
            /\ uiAmortizationTable' = calculationResult.amortization
            /\ completed' = completed \cup {rendered}
            /\ currentCalculation' =
                   HandleCalculationComplete(calculationResult.calculation,
                                             calculationResult.amortization)
    /\ UNCHANGED << uiInputs, rendered, validationErrors, calculationResult,
                    calculated, formVars >>
    /\ UNCHANGED outsideUI

NextUI ==
    \/ HandleInputChange
    \/ Render
    \/ UpdateEffect

SpecUI == InitUI /\ [][NextUI]_vars

(***************************************************************************)
(* The purchase-price and down-payment fields of the component's form,     *)
(* lines 549-678.  Their onChange handlers compute a value from the inputs *)
(* of the render they belong to and pass it to handleInputChange; React    *)
(* renders after each input event, so these are the current inputs.        *)
(***************************************************************************)
MaxEdits == 3

\* Math.min(x, y)
MathMin(x, y) ==
    IF x.k = "nan" \/ y.k = "nan" THEN NaN
    ELSE IF NumCmp(x, y) <= 0 THEN x ELSE y

\* what the user may type into the three fields: parseFloat(value) || 0
PurchasePrices == {Num(12), Num(6), Zero}
DownPayments == {Zero, Num(6), Num(20), Num(0 - 1)}
Percentages == {Num(50), Num(150)}

\* handleInputChange("downPayment", clampedDownPayment), lines 635-638 and
\* 674-677
EditDownPayment(clampedDownPayment) ==
    uiInputs' = [uiInputs EXCEPT !.downPayment = clampedDownPayment]

\* lines 565-580: the loan amount is the entered price less the down payment
PurchasePriceChange ==
    /\ edits < MaxEdits
    /\ edits' = edits + 1
    /\ \E purchasePrice \in PurchasePrices :
           /\ enteredPrice' = purchasePrice
           /\ uiInputs' = [uiInputs EXCEPT !.loanAmount =
                  MathMax(Zero, NumSub(purchasePrice, uiInputs.downPayment))]
    /\ renderPending' = TRUE
    /\ UNCHANGED << uiCalculation, uiAmortizationTable, calculationError,
                    rendered, validationErrors, calculationResult,
                    effectPending, calculated, completed, pageVars >>
    /\ UNCHANGED outsideUI

\* lines 620-639: the down payment in dollars, at most the purchase price
DownPaymentChange ==
    /\ edits < MaxEdits
    /\ edits' = edits + 1
    /\ \E newDownPayment \in DownPayments :
           EditDownPayment(MathMin(newDownPayment, PurchasePrice(uiInputs)))
    /\ renderPending' = TRUE
    /\ UNCHANGED << uiCalculation, uiAmortizationTable, calculationError,
                    rendered, validationErrors, calculationResult,
                    effectPending, calculated, completed, pageVars,
                    enteredPrice >>
    /\ UNCHANGED outsideUI

\* lines 656-678: the down payment as a percentage of the purchase price
DownPaymentPercentChange ==
    /\ edits < MaxEdits
    /\ edits' = edits + 1
    /\ \E percentage \in Percentages :
           EditDownPayment(
               MathMin(NumMul(NumDiv(percentage, Num(100)),
                              PurchasePrice(uiInputs)),
                       PurchasePrice(uiInputs)))
    /\ renderPending' = TRUE
    /\ UNCHANGED << uiCalculation, uiAmortizationTable, calculationError,
                    rendered, validationErrors, calculationResult,
                    effectPending, calculated, completed, pageVars,
                    enteredPrice >>
    /\ UNCHANGED outsideUI

NextForm ==
    \/ PurchasePriceChange
    \/ DownPaymentChange
    \/ DownPaymentPercentChange

SpecForm == InitUI /\ [][NextForm]_vars

(***************************************************************************)
(* The page, src/routes/api.google-sheets-export.ts lines 72-506, with the *)
(* component in it: the component's steps and the page's Save Scenario.    *)
(***************************************************************************)
MaxSaves == 1

\* lines 131-145: saveScenario with what currentCalculation holds; name is
\* the trimmed scenarioName, which is not empty
HandleSaveScenario ==
    /\ currentCalculation # Null
    /\ Len(storage) < MaxSaves
    /\ \E name \in ScenarioNames :
           /\ op' = [fn |-> "handleSaveScenario", name |-> name]
           /\ storage' = JSONScenarios(
                  Append(getAllScenarios,
                         NewScenario(name, currentCalculation, now)))
           /\ returned' = NewScenario(name, currentCalculation, now)
    /\ UNCHANGED << now, snapshots >>
    /\ UNCHANGED << calculatorVars, callerVars, uiVars, themeVars, exportVars >>

NextPage ==
    \/ HandleInputChange
    \/ Render
    \/ UpdateEffect
    \/ HandleSaveScenario

SpecPage == InitUI /\ [][NextPage]_vars

(***************************************************************************)
(* The claim checked against SpecUI                                        *)
(***************************************************************************)
Mounted == uiInputs # NotCalled

CurrentInputsValid == validateInputs(uiInputs) = << >>

\* no render and no update effect is waiting
Settled == ~renderPending /\ ~effectPending

\* for inputs that fail validation the calculator is never called and
\* onCalculationComplete never invoked
NeverCalculatedWhenInvalid ==
    ~CurrentInputsValid => uiInputs \notin calculated /\ uiInputs \notin completed

\* what the component displays is what the current inputs give
DisplayIsCurrent ==
    IF CurrentInputsValid
    THEN uiCalculation = calculateMortgage(uiInputs)
    ELSE uiCalculation = Null /\ uiAmortizationTable = << >>

\* C17 as stated: at every moment, when the current inputs fail validation
\* the calculator has not been called for them, the displayed calculation is
\* null, the displayed table empty and onCalculationComplete not invoked,
\* and when they pass, the displayed calculation is the one of the current
\* inputs.
C17_ValidationGatesAlways ==
    Mounted => NeverCalculatedWhenInvalid /\ DisplayIsCurrent

\* C17: inputs that fail validation are never calculated and never reported
\* to onCalculationComplete; and once the render and the update effect that
\* follow a change of the inputs have run, the component displays null and
\* an empty table when the current inputs fail validation, and the
\* calculation of exactly the current inputs when they pass.
C17_ValidationGatesCalculation ==
    Mounted => NeverCalculatedWhenInvalid /\ (Settled => DisplayIsCurrent)

\* a calculation was displayed, the inputs were changed to ones that fail
\* validation, and the display has been cleared
C17_Witness ==
    /\ Mounted
    /\ Settled
    /\ ~CurrentInputsValid
    /\ completed # {}
    /\ uiCalculation = Null
    /\ uiAmortizationTable = << >>

(***************************************************************************)
(* The theme provider, src/lib/theme-context.tsx lines 1-137.  Themes and  *)
(* stored items are strings; Absent stands for the null that getItem       *)
(* returns for a missing item and for a missing attribute.                 *)
(***************************************************************************)
THEMES == {"caramellatte", "luxury", "halloween"}

Absent == "(absent)"

isValidTheme_Any(t) == TRUE

\* lines 23-25
isValidTheme(t) == t \in THEMES

\* lines 27-38
getSystemTheme(dark) == IF dark THEN "luxury" ELSE "caramellatte"

\* getStoredTheme returning whatever string is stored
getStoredTheme_Unvalidated(stored, readable) ==
    IF ~readable THEN Absent
    ELSE IF stored # Absent /\ stored # "" THEN stored ELSE Absent

\* lines 40-49: the stored item when it is a theme, null when it is not one
\* or when getItem throws
getStoredTheme(stored, readable) ==
    IF ~readable THEN Absent
    ELSE IF stored # Absent /\ stored # "" /\ isValidTheme(stored) THEN stored
    ELSE Absent

\* what localStorage may hold under "theme" when the provider mounts
StoredItems == THEMES \cup {Absent, "", "solarized"}

\* what setTheme may be called with
SetThemeArguments == THEMES \cup {"solarized", ""}

\* the provider has rendered for the first time: lines 53-59
InitTheme ==
    /\ theme = "caramellatte"
    /\ renderedTheme = "caramellatte"
    /\ dataTheme = Absent
    /\ localStorageTheme \in StoredItems
    /\ storageReadable \in BOOLEAN
    /\ prefersDark \in BOOLEAN
    /\ hasUserSetTheme = FALSE
    /\ mediaQueryRef = FALSE
    /\ listening = FALSE
    /\ themePc = "mount"
    /\ themeEffectPending = FALSE
    /\ pristine = TRUE
    /\ preferenceSet = FALSE
    /\ themeOp = [fn |-> "mount"]
    /\ CalculatorIdle
    /\ StoreIdle
    /\ snapshots = {}
    /\ CallerIdle
    /\ ExportIdle
    /\ UIIdle

\* the effects of the first render, in their order: lines 62-68 set the
\* state to the stored or the system theme; lines 70-109 apply the rendered
\* theme to the document and register handleChange
MountEffects ==
    /\ themePc = "mount"
    /\ themePc' = "idle"
    /\ LET storedTheme == getStoredTheme(localStorageTheme, storageReadable)
           systemTheme == getSystemTheme(prefersDark)
       IN  theme' = IF storedTheme # Absent THEN storedTheme ELSE systemTheme
    /\ dataTheme' = renderedTheme
    /\ mediaQueryRef' = TRUE
    /\ listening' = TRUE
    /\ themeOp' = [fn |-> "mountEffects"]
    /\ UNCHANGED << renderedTheme, localStorageTheme, storageReadable,
                    prefersDark, hasUserSetTheme, themeEffectPending, pristine,
                    preferenceSet >>
    /\ UNCHANGED outsideTheme

\* a render after the state has changed; theme is a dependency of the
\* effect of lines 70-109
RenderTheme ==
    /\ themePc = "idle"
    /\ ~themeEffectPending
    /\ theme # renderedTheme
    /\ renderedTheme' = theme
    /\ themeEffectPending' = TRUE
    /\ themeOp' = [fn |-> "render"]
    /\ UNCHANGED << theme, dataTheme, localStorageTheme, storageReadable,
                    prefersDark, hasUserSetTheme, mediaQueryRef, listening,
                    themePc, pristine, preferenceSet >>
    /\ UNCHANGED outsideTheme

\* the cleanup of the last run of the effect, lines 101-108, and its next
\* run, lines 72-98: mediaQueryRef is set, so nothing is registered again
ThemeEffect ==
    /\ themeEffectPending
    /\ themeEffectPending' = FALSE
    /\ dataTheme' = renderedTheme
    /\ listening' = IF mediaQueryRef THEN FALSE ELSE TRUE
    /\ mediaQueryRef' = TRUE
    /\ themeOp' = [fn |-> "effect"]
    /\ UNCHANGED << theme, renderedTheme, localStorageTheme, storageReadable,
                    prefersDark, hasUserSetTheme, themePc, pristine,
                    preferenceSet >>
    /\ UNCHANGED outsideTheme

\* setTheme writing to localStorage first and not catching what it throws
SetTheme_WriteFirst ==
    /\ themePc = "idle"
    /\ \E newTheme \in SetThemeArguments : \E threw \in BOOLEAN :
           /\ themeOp' = [fn |-> "setTheme", arg |-> newTheme, threw |-> threw]
           /\ preferenceSet' = (preferenceSet \/ newTheme \in THEMES)
           /\ IF ~isValidTheme(newTheme) \/ threw
              THEN UNCHANGED << theme, dataTheme, localStorageTheme, hasUserSetTheme >>
              ELSE /\ theme' = newTheme
                   /\ dataTheme' = newTheme
                   /\ localStorageTheme' = newTheme
                   /\ hasUserSetTheme' = TRUE
    /\ pristine' = FALSE
    /\ UNCHANGED << renderedTheme, storageReadable, prefersDark, mediaQueryRef,
                    listening, themePc, themeEffectPending >>
    /\ UNCHANGED outsideTheme

\* setTheme applying a theme through the state only
SetTheme_StateOnly ==
    /\ themePc = "idle"
    /\ \E newTheme \in SetThemeArguments : \E threw \in BOOLEAN :
           /\ themeOp' = [fn |-> "setTheme", arg |-> newTheme, threw |-> threw]
           /\ preferenceSet' = (preferenceSet \/ newTheme \in THEMES)
           /\ IF ~isValidTheme(newTheme)
              THEN UNCHANGED << theme, dataTheme, localStorageTheme, hasUserSetTheme >>
              ELSE /\ theme' = newTheme
                   /\ dataTheme' = dataTheme
                   /\ IF threw
                      THEN UNCHANGED << localStorageTheme, hasUserSetTheme >>
                      ELSE /\ localStorageTheme' = newTheme
                           /\ hasUserSetTheme' = TRUE
    /\ pristine' = FALSE
    /\ UNCHANGED << renderedTheme, storageReadable, prefersDark, mediaQueryRef,
                    listening, themePc, themeEffectPending >>
    /\ UNCHANGED outsideTheme

\* lines 111-130; threw: localStorage.setItem throws
SetTheme ==
    /\ themePc = "idle"
    /\ \E newTheme \in SetThemeArguments : \E threw \in BOOLEAN :
           /\ themeOp' = [fn |-> "setTheme", arg |-> newTheme, threw |-> threw]
           /\ preferenceSet' = (preferenceSet \/ newTheme \in THEMES)
           /\ IF ~isValidTheme(newTheme)
              THEN UNCHANGED << theme, dataTheme, localStorageTheme, hasUserSetTheme >>
              ELSE /\ theme' = newTheme
                   /\ dataTheme' = newTheme
                   /\ IF threw
                      THEN UNCHANGED << localStorageTheme, hasUserSetTheme >>
                      ELSE /\ localStorageTheme' = newTheme
                           /\ hasUserSetTheme' = TRUE
    /\ pristine' = FALSE
    /\ UNCHANGED << renderedTheme, storageReadable, prefersDark, mediaQueryRef,
                    listening, themePc, themeEffectPending >>
    /\ UNCHANGED outsideTheme

\* the system changes its color scheme; lines 80-93 when handleChange is
\* registered
SystemChange ==
    /\ themePc = "idle"
    /\ prefersDark' = ~prefersDark
    /\ IF listening /\ ~hasUserSetTheme
       THEN /\ theme' = getSystemTheme(prefersDark')
            /\ dataTheme' = getSystemTheme(prefersDark')
       ELSE UNCHANGED << theme, dataTheme >>
    /\ themeOp' = [fn |-> "change", matches |-> prefersDark']
    /\ pristine' = FALSE
    /\ UNCHANGED << renderedTheme, localStorageTheme, storageReadable,
                    hasUserSetTheme, mediaQueryRef, listening, themePc,
                    themeEffectPending, preferenceSet >>
    /\ UNCHANGED outsideTheme

NextTheme ==
    \/ MountEffects
    \/ RenderTheme
    \/ ThemeEffect
    \/ SetTheme
    \/ SystemChange

SpecTheme == InitTheme /\ [][NextTheme]_vars

(***************************************************************************)
(* The claims checked against SpecTheme                                    *)
(***************************************************************************)
\* the last step was setTheme with one of the three themes
ValidThemeSet == themeOp.fn = "setTheme" /\ themeOp.arg \in THEMES

\* C18 as stated: right after setTheme(t) with t one of the three themes,
\* from any state, the theme state is t, data-theme is t and the item
\* "theme" of localStorage is t.
C18_SetThemeAppliesAndStores ==
    ValidThemeSet =>
        /\ theme = themeOp.arg
        /\ dataTheme = themeOp.arg
        /\ localStorageTheme = themeOp.arg

\* C18: right after setTheme(t) with t one of the three themes, from any
\* state, the theme state is t and data-theme is t, and the item "theme" of
\* localStorage is t unless localStorage.setItem threw.
C18_SetThemeApplies ==
    ValidThemeSet =>
        /\ theme = themeOp.arg
        /\ dataTheme = themeOp.arg
        /\ ~themeOp.threw => localStorageTheme = themeOp.arg

\* halloween was set and stored while another theme was rendered and stored
C18_Witness ==
    /\ ValidThemeSet
    /\ themeOp.arg = "halloween"
    /\ ~themeOp.threw
    /\ renderedTheme = "luxury"
    /\ theme = "halloween"
    /\ dataTheme = "halloween"
    /\ localStorageTheme = "halloween"

\* the step is setTheme with a value that is none of the three themes
InvalidThemeSet == themeOp'.fn = "setTheme" /\ themeOp'.arg \notin THEMES

\* C19: setTheme with a value that is none of the three themes changes
\* neither the theme state nor data-theme and writes nothing to
\* localStorage.
C19_InvalidThemeRejected ==
    [][InvalidThemeSet =>
          /\ theme' = theme
          /\ dataTheme' = dataTheme
          /\ localStorageTheme' = localStorageTheme
          /\ hasUserSetTheme' = hasUserSetTheme]_vars

\* setTheme("solarized") was called after halloween had been set and stored
C19_Witness ==
    /\ themeOp.fn = "setTheme"
    /\ themeOp.arg = "solarized"
    /\ theme = "halloween"
    /\ dataTheme = "halloween"
    /\ localStorageTheme = "halloween"

\* the mount effects and the render and effect they cause have run
ThemeSettled ==
    /\ themePc = "idle"
    /\ theme = renderedTheme
    /\ ~themeEffectPending

\* the stored theme when it is readable and one of the three, else the
\* theme of the system
ExpectedAtMount ==
    IF storageReadable /\ localStorageTheme \in THEMES THEN localStorageTheme
    ELSE IF prefersDark THEN "luxury" ELSE "caramellatte"

ThemeSetWriteFailed == ValidThemeSet /\ themeOp.threw

\* C21: when localStorage.setItem throws during setTheme(t) with t one of
\* the three themes, the call still completes and the theme state and
\* data-theme are both t.
C21_ThemeChangesWhenWriteFails ==
    ThemeSetWriteFailed => theme = themeOp.arg /\ dataTheme = themeOp.arg

\* halloween was set while luxury was stored, and the write threw
C21_Witness ==
    /\ ThemeSetWriteFailed
    /\ themeOp.arg = "halloween"
    /\ theme = "halloween"
    /\ dataTheme = "halloween"
    /\ localStorageTheme = "luxury"


\* a preference has been chosen: with setTheme in this session, or in an
\* earlier one and restored on load (the stored item changes only with a
\* setTheme call of this session)
PreferenceChosen ==
    \/ preferenceSet
    \/ storageReadable /\ localStorageTheme \in THEMES

\* the step is a change of the system color scheme
SystemChanged == themeOp'.fn = "change"

\* C22: once a preference has been chosen with setTheme, in this session
\* (whether or not the write to localStorage succeeded) or restored from
\* localStorage on load, no change of the system color scheme alters the
\* theme state or data-theme.
C22_PreferenceStopsAutoSwitch ==
    [][(SystemChanged /\ PreferenceChosen) =>
          theme' = theme /\ dataTheme' = dataTheme]_vars

\* C23: while no preference has been chosen, every change of the system
\* color scheme makes the theme state and data-theme luxury when it reports
\* dark and caramellatte when it reports light.
C23_FollowsSystemWithoutPreference ==
    [][(SystemChanged /\ ~PreferenceChosen) =>
          /\ theme' = getSystemTheme(themeOp'.matches)
          /\ dataTheme' = getSystemTheme(themeOp'.matches)]_vars


(***************************************************************************)
(* Further properties of the scenario store: C24 checked under SpecStore,   *)
(* C29 under SpecOneSnapshot.                                              *)
(***************************************************************************)
\* C24: after any sequence of saves, updates and deletes, two saves within
\* one millisecond included, no two stored scenarios have the same id.
C24_DistinctIds ==
    \A a, b \in 1..Len(storage) : a # b => storage[a].id # storage[b].id

StoredIds == {storage[k].id : k \in 1..Len(storage)}

\* the stored scenarios that have another id, in their order
Others(scenarios, id) ==
    LET Other(s) == s.id # id IN SelectSeq(scenarios, Other)

\* deleteScenario and updateScenario of an id that is not stored return
\* false and null and leave the stored list as it is
UnknownIdIsNoOp ==
    /\ (DeleteScenario /\ op'.id \notin StoredIds) =>
           returned' = FALSE /\ storage' = storage
    /\ (UpdateScenario /\ op'.id \notin StoredIds) =>
           returned' = Null /\ storage' = storage

\* deleteScenario of a stored id returns true and leaves the scenarios of
\* every other id, unchanged and in their order, and none of that id
DeleteRemovesOnlyThatId ==
    (DeleteScenario /\ op'.id \in StoredIds) =>
        returned' = TRUE /\ storage' = Others(storage, op'.id)

C25_SnapshotIsCurrent ==
    (Mounted /\ Settled) =>
        IF CurrentInputsValid
        THEN /\ currentCalculation # Null
             /\ currentCalculation.calculation = calculateMortgage(uiInputs)
        ELSE currentCalculation = Null

\* an optional field that is absent counts as 0, as calculateMortgage takes it
OrZero(x) == IF x = Undefined THEN Zero ELSE x

SameInputs(a, b) ==
    /\ a.loanAmount = b.loanAmount
    /\ a.interestRate = b.interestRate
    /\ a.loanTermYears = b.loanTermYears
    /\ a.propertyTaxAnnual = b.propertyTaxAnnual
    /\ a.homeInsuranceAnnual = b.homeInsuranceAnnual
    /\ OrZero(a.pmiRate) = OrZero(b.pmiRate)
    /\ OrZero(a.hoaFees) = OrZero(b.hoaFees)
    /\ a.downPayment = b.downPayment
    /\ OrZero(a.closingCosts) = OrZero(b.closingCosts)

\* Save Scenario is used while the component shows the result of its
\* current, valid inputs
SavedWhileCurrent ==
    HandleSaveScenario /\ Settled /\ CurrentInputsValid

\* C26: the inputs of a scenario saved from the page equal, field by field,
\* the inputs the user entered and the calculation was computed from, and
\* calculateMortgage of the stored inputs is the stored calculation.
C26_SavedInputsAreEntered ==
    [][SavedWhileCurrent =>
          /\ SameInputs(returned'.inputs, uiInputs)
          /\ calculateMortgage(returned'.inputs) = returned'.calculation]_vars


(***************************************************************************)
(* The claim checked against SpecForm                                      *)
(***************************************************************************)
\* the loan amount is what is left of the price entered last
LoanIsPriceLessDownPayment ==
    /\ uiInputs.loanAmount =
           MathMax(Zero, NumSub(enteredPrice, uiInputs.downPayment))
    /\ NumGe(uiInputs.loanAmount, Zero)

\* an edit of the down payment leaves the purchase price the form shows
DownPaymentEditKeepsPrice ==
    (DownPaymentChange \/ DownPaymentPercentChange) =>
        PurchasePrice(uiInputs') = PurchasePrice(uiInputs)

\* C27: after any sequence of edits of the purchase price and the down
\* payment, loanAmount is max(0, purchase price - down payment) for the
\* purchase price entered last and is not negative, and an edit of the down
\* payment leaves the purchase price unchanged.
C27_LoanFromPriceAndDownPayment ==
    [][LoanIsPriceLessDownPayment' /\ DownPaymentEditKeepsPrice]_vars

(***************************************************************************)
(* The cumulative totals of the amortization table, checked under          *)
(* SpecAmort.                                                              *)
(***************************************************************************)
\* principalPayment of entries 1..k added up in payment order
RECURSIVE PrincipalUpTo(_)
PrincipalUpTo(k) ==
    IF k = 0 THEN Zero
    ELSE NumAdd(PrincipalUpTo(k - 1), amortizationTable[k].principalPayment)

\* interestPayment of entries 1..k added up in payment order
RECURSIVE InterestUpTo(_)
InterestUpTo(k) ==
    IF k = 0 THEN Zero
    ELSE NumAdd(InterestUpTo(k - 1), amortizationTable[k].interestPayment)

\* the cumulative fields of every entry are the sums over the entries so far
RunningTotals ==
    \A k \in 1..Len(amortizationTable) :
        /\ SameValue(amortizationTable[k].cumulativePrincipal,
                     PrincipalUpTo(k))
        /\ SameValue(amortizationTable[k].cumulativeInterest,
                     InterestUpTo(k))

\* what has been repaid and what is still owed make up the loan amount
RepaidPlusOwedIsLoan ==
    \A k \in 1..Len(amortizationTable) :
        WithinTolerance(NumAdd(amortizationTable[k].cumulativePrincipal,
                               amortizationTable[k].endingBalance),
                        inputs.loanAmount)

\* C28: in the returned table, for every entry k, cumulativePrincipal is the
\* sum of principalPayment over entries 1..k, cumulativeInterest is the sum
\* of interestPayment over entries 1..k, and cumulativePrincipal +
\* endingBalance is the loan amount, for the final entry too.
C28_CumulativeTotals ==
    Returned => (RunningTotals /\ RepaidPlusOwedIsLoan)

(***************************************************************************)
(* GoogleSheetsExportService.populateAmortizationSheet, one statement a    *)
(* step; every writeRange either succeeds or throws.                       *)
(***************************************************************************)

MaxExports == 2

\* the argument of slice(0, 100)
SliceLimit == 100

\* array.slice(0, end)
Slice(array, end) ==
    SubSeq(array, 1, IF Len(array) < end THEN Len(array) ELSE end)

\* the row the export makes of an entry
DataRow(entry) ==
    << entry.paymentNumber, entry.paymentDate, entry.beginningBalance,
       entry.monthlyPayment, entry.principalPayment, entry.interestPayment,
       entry.endingBalance, entry.cumulativeInterest >>

\* amortizationTable.slice(0, 100).map(...)
LimitedData(table) ==
    [k \in 1..Len(Slice(table, SliceLimit)) |-> DataRow(Slice(table, SliceLimit)[k])]

Headers ==
    << "Payment #", "Date", "Beginning Balance", "Payment", "Principal",
       "Interest", "Ending Balance", "Cumulative Interest" >>

NoteRow ==
    << "Note: Showing first 100 payments only", "", "", "", "", "", "", "" >>

\* writeRange(`A${first}:H${last}`, values) has succeeded
WriteRange(first, last, values) ==
    writes' = Append(writes, [first |-> first, last |-> last, values |-> values])

\* the table of a loan of 1200 at 0% repaid in n payments, payment by payment
ZeroRateTable(n) ==
    [k \in 1..n |->
        AmortizationEntry(k, [year |-> 2024, month |-> 0, day |-> 15],
                          NumSub(Num(1200), NumMul(Num(k - 1), NumDiv(Num(1200), Num(n)))),
                          NumDiv(Num(1200), Num(n)), Zero, Zero,
                          NumMul(Num(k - 1), NumDiv(Num(1200), Num(n))))]

\* tables of no entry, of one, and of lengths around the limit
TableLengths == {0, 1, 99, 100, 101, 120}

\* the header is in row 30 under the summary, or in row 1 of its own sheet
HeaderRows == {30, 1}

InitExport ==
    /\ exportTable \in {ZeroRateTable(n) : n \in TableLengths}
    /\ headerRow \in HeaderRows
    /\ writes = << >>
    /\ exportPc = "idle"
    /\ exports = 0
    /\ StoreIdle
    /\ snapshots = {}
    /\ CalculatorIdle
    /\ CallerIdle
    /\ UIIdle
    /\ ThemeIdle

\* populateAmortizationSheet is called
ExportBegin ==
    /\ exportPc = "idle"
    /\ exports < MaxExports
    /\ exports' = exports + 1
    /\ writes' = << >>
    /\ exportPc' = "headers"
    /\ UNCHANGED << exportTable, headerRow, outsideExport >>

\* await writeRange(headers)
WriteHeaders ==
    /\ exportPc = "headers"
    /\ \E succeeds \in BOOLEAN :
        IF succeeds
        THEN /\ WriteRange(headerRow, headerRow, << Headers >>)
             /\ exportPc' = "data"
        ELSE /\ exportPc' = "failed"
             /\ UNCHANGED writes
    /\ UNCHANGED << exportTable, headerRow, exports, outsideExport >>

\* if (limitedData.length > 0) await writeRange(limitedData)
WriteData ==
    /\ exportPc = "data"
    /\ IF Len(LimitedData(exportTable)) > 0
       THEN \E succeeds \in BOOLEAN :
               IF succeeds
               THEN /\ WriteRange(headerRow + 1,
                                  headerRow + Len(LimitedData(exportTable)),
                                  LimitedData(exportTable))
                    /\ exportPc' = "note"
               ELSE /\ exportPc' = "failed"
                    /\ UNCHANGED writes
       ELSE /\ exportPc' = "note"
            /\ UNCHANGED writes
    /\ UNCHANGED << exportTable, headerRow, exports, outsideExport >>

\* WriteNote adding the note as soon as the table reaches the limit
WriteNote_FromLimit ==
    /\ exportPc = "note"
    /\ IF Len(exportTable) >= SliceLimit
       THEN \E succeeds \in BOOLEAN :
               IF succeeds
               THEN /\ WriteRange(headerRow + 1 + Len(LimitedData(exportTable)),
                                  headerRow + 1 + Len(LimitedData(exportTable)),
                                  << NoteRow >>)
                    /\ exportPc' = "done"
               ELSE /\ exportPc' = "failed"
                    /\ UNCHANGED writes
       ELSE /\ exportPc' = "done"
            /\ UNCHANGED writes
    /\ UNCHANGED << exportTable, headerRow, exports, outsideExport >>

\* if (amortizationTable.length > 100) await writeRange(note)
WriteNote ==
    /\ exportPc = "note"
    /\ IF Len(exportTable) > SliceLimit
       THEN \E succeeds \in BOOLEAN :
               IF succeeds
               THEN /\ WriteRange(headerRow + 1 + Len(LimitedData(exportTable)),
                                  headerRow + 1 + Len(LimitedData(exportTable)),
                                  << NoteRow >>)
                    /\ exportPc' = "done"
               ELSE /\ exportPc' = "failed"
                    /\ UNCHANGED writes
       ELSE /\ exportPc' = "done"
            /\ UNCHANGED writes
    /\ UNCHANGED << exportTable, headerRow, exports, outsideExport >>

\* the promise of the export is settled
ExportEnd ==
    /\ exportPc \in {"done", "failed"}
    /\ exportPc' = "idle"
    /\ UNCHANGED << exportTable, headerRow, writes, exports, outsideExport >>

NextExport ==
    \/ ExportBegin
    \/ WriteHeaders
    \/ WriteData
    \/ WriteNote
    \/ ExportEnd

SpecExport == InitExport /\ [][NextExport]_vars

(***************************************************************************)
(* The claim checked against SpecExport                                    *)
(***************************************************************************)
\* the export has run to its end without a failed write
Exported == exportPc = "done"

\* the number of data rows of a completed export
DataRows == IF Len(exportTable) < 100 THEN Len(exportTable) ELSE 100

\* the write that covers a row
WriteOf(row) ==
    CHOOSE w \in 1..Len(writes) : writes[w].first <= row /\ row <= writes[w].last

\* the rows the export has written
WrittenRows ==
    UNION {writes[w].first .. writes[w].last : w \in 1..Len(writes)}

\* what the export has written to a row
Written(row) == writes[WriteOf(row)].values[row - writes[WriteOf(row)].first + 1]

\* every write has as many rows of values as its range has rows, and no two
\* writes cover the same row
WritesFitRanges ==
    /\ \A w \in 1..Len(writes) :
           Len(writes[w].values) = writes[w].last - writes[w].first + 1
    /\ \A v, w \in 1..Len(writes) :
           v # w => (writes[v].last < writes[w].first
                        \/ writes[w].last < writes[v].first)

====
